---- MODULE Spec2Model ----
(***************************************************************************)
(* Zowatari execution engine: the three registries (pebbles, cements,      *)
(* constructs), the definition-time validation, and the layered execution  *)
(* first_pass/scheduled_pass -> construct_func -> cement_func -> pebble.   *)
(*                                                                         *)
(* Strings are sequences of one-character strings, so that the "$" prefix  *)
(* test and the [1:] slice of cement_func are computed, not assumed.       *)
(* Python objects that matter by identity (the context dictionaries) live  *)
(* in a heap: a sequence of mappings, an object's id being its index.      *)
(***************************************************************************)
EXTENDS Integers, Sequences, FiniteSets, TLC

\* ------------------------------------------------------------------ bounds
\* longest pebble_instructions list given to cement()
MaxSteps == 2
\* longest cement_order list given to construct()
MaxCements == 2
\* most rows of the passes table
MaxPasses == 2
\* most rows of the execution_logs table
MaxLogs == 2

\* ------------------------------------------------------------------ values
\* A Python value the model distinguishes: an int, a str, None, or a list
\* (of records, each told by a string).
IntV(i) == [t |-> "int", n |-> i, s |-> <<>>]
StrV(str) == [t |-> "str", n |-> 0, s |-> str]
NoneV == [t |-> "none", n |-> 0, s |-> <<>>]
ListV(items) == [t |-> "list", n |-> 0, s |-> items]
\* a dict given as a result payload, told by the number of its entries
DictV(n) == [t |-> "dict", n |-> n, s |-> <<>>]

\* the empty dict
EmptyMap == <<>>

\* an update that keeps the entries d already has
UpdateKeepFirst(d, other) ==
    [k \in (DOMAIN d) \cup (DOMAIN other) |->
        IF k \in DOMAIN d THEN d[k] ELSE other[k]]

\* dict.update(other): entries of other overwrite, the rest is kept
Update(d, other) ==
    [k \in (DOMAIN d) \cup (DOMAIN other) |->
        IF k \in DOMAIN other THEN other[k] ELSE d[k]]

\* an assignment that keeps the entry a name already has
SetItemIfAbsent(d, key, value) ==
    [k \in (DOMAIN d) \cup {key} |-> IF k \in DOMAIN d THEN d[k] ELSE value]

\* an assignment that forgets the other entries
SetItemAlone(d, key, value) == [k \in {key} |-> value]

\* d[key] = value
SetItem(d, key, value) ==
    [k \in (DOMAIN d) \cup {key} |-> IF k = key THEN value ELSE d[k]]

\* ------------------------------------------------------------------- names
U == <<"u">>
V == <<"v">>
P == <<"p">>
Q == <<"q">>
C == <<"c">>
KA == <<"a">>
KB == <<"b">>
PX == <<"x">>
PY == <<"y">>
NoName == <<>>

\* the names of the ETL example: pebbles extract_customers, extract_orders,
\* transform_order_summary, their parameters customers and orders, the cement
\* extract_transform_load, the construct order_summary_etl, and the key of a
\* transform result that is a dict
EC == <<"e", "c">>
EO == <<"e", "o">>
TR == <<"t", "r">>
CUSTOMERS == <<"c", "s">>
ORDERS == <<"o", "s">>
ETL == <<"e", "t", "l">>
OSE == <<"o", "s", "e">>
SUMMARY == <<"s", "m">>

PebbleNames == {U, V}
CementNames == {P, Q}
ConstructNames == {C}

\* "$" + key, the reference syntax of a parameter value
Ref(key) == StrV(<<"$">> \o key)

\* --------------------------------------------------------------- callables
\* What a pebble's underlying function did when called.
Returned(kind, kv, val) == [kind |-> kind, kv |-> kv, val |-> val]

\* The user functions registered as pebbles.  Each accepts any keyword
\* arguments.  f_kv returns the dict {"a": x} (x defaulting to 1), f_model a
\* pydantic model with the single field b = 3, f_scalar the int 2,
\* f_raise raises, f_none returns None (as load_order_summary of the example
\* does).
\* The functions of the ETL example: extract_customers returns the list of
\* customers 1 and 2, extract_orders the list of three orders (told by their
\* customer_id: 1, 1, 2), transform_order_summary the list of one summary
\* (customer_id, total_orders) per customer_id of the orders that is a
\* customer's id, in the order the ids first occur; summary_by_key returns
\* that list in a dict, under the key SUMMARY.
Funcs == {"f_kv", "f_model", "f_scalar", "f_raise", "f_none",
          "extract_customers", "extract_orders", "transform_order_summary",
          "summary_by_key"}

\* the functions the program decorates under each pebble name
Decorated(name) ==
    IF name = U THEN {"f_kv", "f_scalar", "f_raise"}
    ELSE IF name = V THEN {"f_kv", "f_model"}
    ELSE IF name = EC THEN {"extract_customers"}
    ELSE IF name = EO THEN {"extract_orders"}
    ELSE {"transform_order_summary", "summary_by_key"}

\* len(orders) of one customer, as the summary holds it
Digit(n) == <<"0", "1", "2", "3", "4", "5", "6", "7", "8", "9">>[n + 1]

\* the loop of transform_order_summary over customer_orders.items(), from
\* order i on, seen being the customer ids already grouped
RECURSIVE OrderSummaries(_, _, _, _)
OrderSummaries(customers, orders, i, seen) ==
    IF i > Len(orders) THEN <<>>
    ELSE LET customer_id == orders[i]
             total_orders == Cardinality({j \in DOMAIN orders : orders[j] = customer_id})
             rest == OrderSummaries(customers, orders, i + 1, seen \cup {customer_id})
         IN  IF customer_id \in seen
                \/ customer_id \notin {customers[j] : j \in DOMAIN customers}
             THEN rest
             ELSE <<customer_id, Digit(total_orders)>> \o rest

\* transform_order_summary(customers, orders); a call without a list for
\* either raises
TransformOrderSummary(kwargs) ==
    IF /\ DOMAIN kwargs = {CUSTOMERS, ORDERS}
       /\ kwargs[CUSTOMERS].t = "list"
       /\ kwargs[ORDERS].t = "list"
    THEN [ok |-> TRUE,
          list |-> ListV(OrderSummaries(kwargs[CUSTOMERS].s, kwargs[ORDERS].s, 1, {}))]
    ELSE [ok |-> FALSE, list |-> NoneV]

CallFunc(f, kwargs) ==
    CASE f = "extract_customers" /\ kwargs = EmptyMap ->
            Returned("scalar", EmptyMap, ListV(<<"1", "2">>))
      [] f = "extract_orders" /\ kwargs = EmptyMap ->
            Returned("scalar", EmptyMap, ListV(<<"1", "1", "2">>))
      [] f = "transform_order_summary" /\ TransformOrderSummary(kwargs).ok ->
            Returned("scalar", EmptyMap, TransformOrderSummary(kwargs).list)
      [] f = "summary_by_key" /\ TransformOrderSummary(kwargs).ok ->
            Returned("dict", [k \in {SUMMARY} |-> TransformOrderSummary(kwargs).list],
                     NoneV)
      [] f = "f_kv" ->
            Returned("dict",
                     [k \in {KA} |-> IF PX \in DOMAIN kwargs THEN kwargs[PX] ELSE IntV(1)],
                     NoneV)
      [] f = "f_model" -> Returned("model", [k \in {KB} |-> IntV(3)], NoneV)
      [] f = "f_scalar" -> Returned("scalar", EmptyMap, IntV(2))
      [] f = "f_none" -> Returned("scalar", EmptyMap, NoneV)
      [] OTHER -> Returned("raise", EmptyMap, NoneV)

\* func.__name__: the identifier a function was defined with
FuncName(func) ==
    CASE func = "extract_customers" -> EC
      [] func = "extract_orders" -> EO
      [] func = "transform_order_summary" -> TR
      [] func = "summary_by_key" -> SUMMARY
      [] func = "f_kv" -> <<"f", "k">>
      [] func = "f_model" -> <<"f", "m">>
      [] func = "f_scalar" -> <<"f", "s">>
      [] OTHER -> <<"f", "r">>

\* func.__doc__: the docstring, None for a function without one; f_model's
\* begins with blanks
FuncDoc(func) ==
    CASE func = "extract_customers" -> StrV(<<"E", "c">>)
      [] func = "extract_orders" -> StrV(<<"E", "o">>)
      [] func = "transform_order_summary" -> StrV(<<"T", "o">>)
      [] func = "f_model" -> StrV(<<" ", " ", "M">>)
      [] func = "f_scalar" -> StrV(<<>>)
      [] OTHER -> NoneV

\* inspect.cleandoc of a docstring of one line: the blanks before it go
RECURSIVE CleanDoc(_)
CleanDoc(doc) ==
    IF doc # <<>> /\ Head(doc) = " " THEN CleanDoc(Tail(doc)) ELSE doc

\* a value is truthy: not None, not the empty string, not the empty dict
Truthy(v) == v.t # "none" /\ ~(v.t = "str" /\ v.s = <<>>) /\ ~(v.t = "dict" /\ v.n = 0)

\* ------------------------------------------------------------------ errors
\* A raised ValueError, told apart by its message: kind and tier say which
\* message, name/key/param are the names formatted into it, cause is the
\* name inside a wrapped message.
Err(kind, tier, name, key, param, cause) ==
    [kind |-> kind, tier |-> tier, name |-> name, key |-> key,
     param |-> param, cause |-> cause]
NoErr == Err("none", "none", NoName, NoName, NoName, NoName)

\* ---------------------------------------------------------- CementInstruction
CementInstruction(pebble_name, parameters, order, depends_on) ==
    [pebble_name |-> pebble_name, parameters |-> parameters,
     order |-> order, depends_on |-> depends_on]

\* one entry of a parameters dict (a dict keeps insertion order)
Param(name, value) == [name |-> name, value |-> value]

\* The instructions that definitions are drawn from.
StepPool ==
    { CementInstruction(U, <<Param(PX, IntV(5)), Param(PY, StrV(KA))>>, 1, <<>>),
      CementInstruction(V, <<Param(PX, Ref(KA))>>, 2, <<KA>>),
      CementInstruction(V, <<>>, 1, <<U>>) }

RECURSIVE SeqsUpTo(_, _)
SeqsUpTo(S, n) ==
    IF n = 0 THEN {<<>>}
    ELSE LET shorter == SeqsUpTo(S, n - 1)
         IN  shorter \cup {Append(q, x) : q \in shorter, x \in S}

\* the pebble_instructions lists the program passes to cement(name, ...)
InstructionLists(name) ==
    IF name = P THEN SeqsUpTo(StepPool, MaxSteps)
    ELSE SeqsUpTo({s \in StepPool : s.pebble_name = U}, MaxSteps)

\* the instructions of the ETL example's cement
EtlStepPool ==
    { CementInstruction(EC, <<>>, 1, <<>>),
      CementInstruction(EO, <<>>, 2, <<>>),
      CementInstruction(TR, <<Param(CUSTOMERS, Ref(EC)), Param(ORDERS, Ref(EO))>>,
                        3, <<EC, EO>>) }

\* the lists of them that the program passes to cement()
EtlLists == SeqsUpTo(EtlStepPool, Cardinality(EtlStepPool))

\* cement_order of order_summary_etl
EtlOrders == SeqsUpTo({<<ETL, 1>>}, MaxCements)

\* instructions that differ in their depends_on only, the dependency of the
\* one of order 1 being the key the one of order 2 writes
DependencyStepPool ==
    { CementInstruction(V, <<>>, 1, <<>>),
      CementInstruction(V, <<>>, 1, <<U>>),
      CementInstruction(U, <<>>, 2, <<>>),
      CementInstruction(U, <<>>, 2, <<KA>>) }
DependencyLists == SeqsUpTo(DependencyStepPool, MaxSteps)

\* instructions of which the later one asks for the key named after the
\* pebble of the earlier one, as a "$" parameter or as a dependency
MergeStepPool ==
    { CementInstruction(U, <<>>, 1, <<>>),
      CementInstruction(V, <<Param(PX, Ref(U))>>, 2, <<>>),
      CementInstruction(V, <<>>, 2, <<U>>) }
MergeLists == SeqsUpTo(MergeStepPool, MaxSteps)

\* (cement_name, order) tuples
CementOrderPool == { <<P, 2>>, <<Q, 1>> }
CementOrders == SeqsUpTo(CementOrderPool, MaxCements)

\* the cron expressions a caller gives scheduled_pass
Schedules == {<<"d">>, <<"h">>}

\* initial contexts a caller hands to a pass
ContextArgs == { EmptyMap, [k \in {KA} |-> IntV(7)] }

\* -------------------------------------------------------------------- sorted
\* sorted(xs, key=...): Python's sort is stable.  The result lists the
\* positions of xs (the objects), in the order sorted() returns them.
\* a sort that is not stable: an element goes before the elements of equal key
RECURSIVE InsertBeforeEqual(_, _, _)
InsertBeforeEqual(sortedIdx, i, keys) ==
    IF sortedIdx = <<>> THEN <<i>>
    ELSE IF keys[Head(sortedIdx)] < keys[i]
         THEN <<Head(sortedIdx)>> \o InsertBeforeEqual(Tail(sortedIdx), i, keys)
         ELSE <<i>> \o sortedIdx

RECURSIVE InsertByKey(_, _, _)
InsertByKey(sortedIdx, i, keys) ==
    IF sortedIdx = <<>> THEN <<i>>
    ELSE IF keys[Head(sortedIdx)] <= keys[i]
         THEN <<Head(sortedIdx)>> \o InsertByKey(Tail(sortedIdx), i, keys)
         ELSE <<i>> \o sortedIdx

RECURSIVE SortedUpTo(_, _)
SortedUpTo(keys, n) ==
    IF n = 0 THEN <<>> ELSE InsertByKey(SortedUpTo(keys, n - 1), n, keys)

Sorted(keys) == SortedUpTo(keys, Len(keys))

\* -------------------------------------------------------------------- state
VARIABLES
    PEBBLE_REGISTRY,     \* pebble name -> the registered function
    CEMENT_REGISTRY,     \* cement name -> cement_func (its closure: name, pebble_instructions)
    CONSTRUCT_REGISTRY,  \* construct name -> construct_func (its closure: name, cement_order)
    heap,                \* the dict objects of the running pass, by object id
    pc,                  \* "idle", "construct", "cement", "done"
    pass,                \* frame of first_pass/scheduled_pass
    con,                 \* frame of construct_func
    cem,                 \* frame of cement_func
    calls,               \* the pebble functions invoked by the running pass, in order
    outcome,             \* how the last operation ended: returned / raised
    log,                 \* the records the running pass gave to its logger
    history,             \* what the program registered, kept when it is tracked
    decorator,           \* the decorator object the program got from pebble(...)
    db,                  \* the rows of the database: pebbles, constructs, passes
                         \* and execution logs
    other                \* the frames of a second thread, while the first one runs

vars == <<PEBBLE_REGISTRY, CEMENT_REGISTRY, CONSTRUCT_REGISTRY, heap, pc,
          pass, con, cem, calls, outcome, log, history, decorator, db, other>>

\* the state kept beside the engine's: each program below says what it does
\* with it
aside == <<history, decorator, db, other>>

\* object id of "no object" (None)
None == 0

\* initial: the entries of the context argument when the pass was called
NoPass == [kind |-> "none", construct_name |-> NoName, arg |-> None, context |-> None,
           initial |-> EmptyMap]
NoCon == [name |-> NoName, context |-> None, cement_order |-> <<>>,
          sorted_cements |-> <<>>]
NoCem == [name |-> NoName, context |-> None, pebble_instructions |-> <<>>,
          sorted_instructions |-> <<>>, pos |-> 0]
NoOutcome == [op |-> "none", status |-> "none", name |-> NoName, arg |-> <<>>,
              result |-> None, error |-> NoErr]

\* pebble/cement/construct: the definition last registered under each name;
\* replaced: the names registered again with another definition; stale: the
\* pairs <<referrer, name>> where name was registered again while the
\* registered definition of referrer, unchanged since, refers to it
NoHistory == [pebble |-> EmptyMap, cement |-> EmptyMap, construct |-> EmptyMap,
              replaced |-> {}, stale |-> {}]

\* the cells name and description of a decorator's closure (None when the
\* argument was omitted and no function has been decorated yet), and what
\* pebble() was called with
NoDecorator == [made |-> FALSE, name |-> NoneV, description |-> NoneV,
                asked |-> [name |-> NoneV, description |-> NoneV]]

\* an empty database
NoRows == [constructs |-> {}, passes |-> <<>>, pebbles |-> {}, logs |-> <<>>]

\* a thread that has not called anything
NoOther == [pc |-> "idle", pass |-> NoPass, con |-> NoCon, cem |-> NoCem,
            calls |-> <<>>, outcome |-> NoOutcome, log |-> <<>>]

Init ==
    /\ PEBBLE_REGISTRY = EmptyMap
    /\ CEMENT_REGISTRY = EmptyMap
    /\ CONSTRUCT_REGISTRY = EmptyMap
    /\ heap = <<>>
    /\ pc = "idle"
    /\ pass = NoPass
    /\ con = NoCon
    /\ cem = NoCem
    /\ calls = <<>>
    /\ outcome = NoOutcome
    /\ log = <<>>
    /\ history = NoHistory
    /\ decorator = NoDecorator
    /\ db = NoRows
    /\ other = NoOther

\* ---------------------------------------------------------------- registries
\* get_pebble / get_cement / get_construct: the entry, or the ValueError
Found(entry) == [ok |-> TRUE, entry |-> entry, error |-> NoErr]
Raised(error) == [ok |-> FALSE, entry |-> <<>>, error |-> error]

\* a name looked up that is not registered gets an entry all the same
get_pebble_lenient(name) ==
    IF name \notin DOMAIN PEBBLE_REGISTRY
    THEN Found([function |-> "f_raise"])
    ELSE Found(PEBBLE_REGISTRY[name])

get_pebble(name) ==
    IF name \notin DOMAIN PEBBLE_REGISTRY
    THEN Raised(Err("NotFound", "pebble", name, NoName, NoName, NoName))
    ELSE Found(PEBBLE_REGISTRY[name])

get_cement(name) ==
    IF name \notin DOMAIN CEMENT_REGISTRY
    THEN Raised(Err("NotFound", "cement", name, NoName, NoName, NoName))
    ELSE Found(CEMENT_REGISTRY[name])

get_construct(name) ==
    IF name \notin DOMAIN CONSTRUCT_REGISTRY
    THEN Raised(Err("NotFound", "construct", name, NoName, NoName, NoName))
    ELSE Found(CONSTRUCT_REGISTRY[name])

\* the pebble decorator applied to a function: PEBBLE_REGISTRY[name] = {...}
RegisterPebble(name, func) ==
    /\ pc = "idle"
    /\ PEBBLE_REGISTRY' = SetItem(PEBBLE_REGISTRY, name, [function |-> func])
    /\ outcome' = [NoOutcome EXCEPT !.op = "pebble", !.status = "returned", !.name = name]
    /\ pc' = "done"
    /\ UNCHANGED <<CEMENT_REGISTRY, CONSTRUCT_REGISTRY, heap, pass, con, cem, calls, log>>

\* name, description = pebble(name, description) called: a new decorator
MakeDecorator(name, description) ==
    /\ pc = "idle"
    /\ decorator' = [made |-> TRUE, name |-> name, description |-> description,
                     asked |-> [name |-> name, description |-> description]]

\* what decorator(func) leaves in its cells and in the registry
Decoration(cells, func) ==
    LET name == IF cells.name.t = "none" THEN StrV(FuncName(func)) ELSE cells.name
        description == IF cells.description.t = "none" /\ Truthy(FuncDoc(func))
                       THEN StrV(CleanDoc(FuncDoc(func).s))
                       ELSE cells.description
    IN  [name |-> name, description |-> description,
         entry |-> [function |-> func,
                    metadata |-> [name |-> name, description |-> description]]]

\* decorator(func): the nonlocal cells name and description are assigned,
\* then PEBBLE_REGISTRY[name] = {...}
ApplyDecorator(func) ==
    /\ pc = "idle"
    /\ decorator.made
    /\ LET d == Decoration(decorator, func)
       IN  /\ PEBBLE_REGISTRY' = SetItem(PEBBLE_REGISTRY, d.name.s, d.entry)
           /\ outcome' = [NoOutcome EXCEPT !.op = "decorate", !.status = "returned",
                                           !.name = d.name.s, !.arg = func]
           /\ decorator' = [decorator EXCEPT !.name = d.name,
                                             !.description = d.description]
    /\ pc' = "done"
    /\ UNCHANGED <<CEMENT_REGISTRY, CONSTRUCT_REGISTRY, heap, pass, con, cem, calls, log>>

\* only the first instruction is validated
FirstUnknownPebbleHeadOnly(pebble_instructions, i) ==
    IF pebble_instructions # <<>>
          /\ pebble_instructions[1].pebble_name \notin DOMAIN PEBBLE_REGISTRY
    THEN 1 ELSE 0

\* only the last instruction is validated
FirstUnknownPebbleLast(pebble_instructions, i) ==
    IF pebble_instructions # <<>>
       /\ ~get_pebble(pebble_instructions[Len(pebble_instructions)].pebble_name).ok
    THEN Len(pebble_instructions) ELSE 0

\* the validation loop of cement(): the first instruction whose pebble is
\* not registered raises, else 0
RECURSIVE FirstUnknownPebble(_, _)
FirstUnknownPebble(pebble_instructions, i) ==
    IF i > Len(pebble_instructions) THEN 0
    ELSE IF ~get_pebble(pebble_instructions[i].pebble_name).ok THEN i
         ELSE FirstUnknownPebble(pebble_instructions, i + 1)

\* a cement() that registers before it validates
DefineCementEager(name, pebble_instructions) ==
    /\ pc = "idle"
    /\ pc' = "done"
    /\ CEMENT_REGISTRY' = SetItem(CEMENT_REGISTRY, name,
             [name |-> name, pebble_instructions |-> pebble_instructions])
    /\ LET bad == FirstUnknownPebble(pebble_instructions, 1)
       IN  outcome' = IF bad # 0
                      THEN [NoOutcome EXCEPT
                               !.op = "cement", !.status = "raised", !.name = name,
                               !.arg = pebble_instructions,
                               !.error = Err("Validation", "cement", name, NoName,
                                             NoName, pebble_instructions[bad].pebble_name)]
                      ELSE [NoOutcome EXCEPT
                               !.op = "cement", !.status = "returned", !.name = name,
                               !.arg = pebble_instructions]
    /\ UNCHANGED <<PEBBLE_REGISTRY, CONSTRUCT_REGISTRY, heap, pass, con, cem, calls, log>>

\* cement(name, pebble_instructions)
DefineCement(name, pebble_instructions) ==
    /\ pc = "idle"
    /\ pc' = "done"
    /\ LET bad == FirstUnknownPebble(pebble_instructions, 1)
       IN  IF bad # 0
           THEN /\ outcome' = [NoOutcome EXCEPT
                        !.op = "cement", !.status = "raised", !.name = name,
                        !.arg = pebble_instructions,
                        !.error = Err("Validation", "cement", name, NoName, NoName,
                                      pebble_instructions[bad].pebble_name)]
                /\ UNCHANGED CEMENT_REGISTRY
           ELSE /\ CEMENT_REGISTRY' = SetItem(CEMENT_REGISTRY, name,
                        [name |-> name, pebble_instructions |-> pebble_instructions])
                /\ outcome' = [NoOutcome EXCEPT
                        !.op = "cement", !.status = "returned", !.name = name,
                        !.arg = pebble_instructions]
    /\ UNCHANGED <<PEBBLE_REGISTRY, CONSTRUCT_REGISTRY, heap, pass, con, cem, calls, log>>

\* only the first entry is validated
FirstUnknownCementHeadOnly(cement_order, i) ==
    IF cement_order # <<>> /\ cement_order[1][1] \notin DOMAIN CEMENT_REGISTRY
    THEN 1 ELSE 0

\* the validation loop of construct()
RECURSIVE FirstUnknownCement(_, _)
FirstUnknownCement(cement_order, i) ==
    IF i > Len(cement_order) THEN 0
    ELSE IF ~get_cement(cement_order[i][1]).ok THEN i
         ELSE FirstUnknownCement(cement_order, i + 1)

\* construct(name, cement_order)
DefineConstruct(name, cement_order) ==
    /\ pc = "idle"
    /\ pc' = "done"
    /\ LET bad == FirstUnknownCement(cement_order, 1)
       IN  IF bad # 0
           THEN /\ outcome' = [NoOutcome EXCEPT
                        !.op = "construct", !.status = "raised", !.name = name,
                        !.arg = cement_order,
                        !.error = Err("Validation", "construct", name, NoName, NoName,
                                      cement_order[bad][1])]
                /\ UNCHANGED CONSTRUCT_REGISTRY
           ELSE /\ CONSTRUCT_REGISTRY' = SetItem(CONSTRUCT_REGISTRY, name,
                        [name |-> name, cement_order |-> cement_order])
                /\ outcome' = [NoOutcome EXCEPT
                        !.op = "construct", !.status = "returned", !.name = name,
                        !.arg = cement_order]
    /\ UNCHANGED <<PEBBLE_REGISTRY, CEMENT_REGISTRY, heap, pass, con, cem, calls, log>>

\* register_pebble_in_db(session, name): the row is made, or updated
RegisterPebbleInDb(name) ==
    /\ pc = "idle"
    /\ pc' = "done"
    /\ db' = [db EXCEPT !.pebbles = @ \cup {name}]
    /\ outcome' = [NoOutcome EXCEPT !.op = "register_pebble_in_db",
                                    !.status = "returned", !.name = name]
    /\ UNCHANGED <<PEBBLE_REGISTRY, CEMENT_REGISTRY, CONSTRUCT_REGISTRY, heap, pass,
                   con, cem, calls, log>>

\* the status strings of an execution log
PENDING == <<"p", "e", "n", "d", "i", "n", "g">>
RUNNING == <<"r", "u", "n", "n", "i", "n", "g">>
COMPLETED == <<"c", "o", "m", "p", "l", "e", "t", "e", "d">>
FAILED == <<"f", "a", "i", "l", "e", "d">>

\* status in ["completed", "failed"]
Closing(status) == status \in {StrV(COMPLETED), StrV(FAILED)}

\* the arguments status, result and error of a call
LogArgs(status, result, error) == [status |-> status, result |-> result, error |-> error]

\* a row of the execution_logs table; ended: end_time is not NULL
LogRow(pebble_name, construct_name, pass_id, status, result, error, ended) ==
    [pebble |-> pebble_name, construct |-> construct_name, pass_id |-> pass_id,
     status |-> status, result |-> result, error |-> error, ended |-> ended]

\* the assignments of update_execution_log to the row it found
UpdatedRow(row, status, result, error) ==
    [row EXCEPT !.status = IF Truthy(status) THEN status ELSE @,
                !.result = IF Truthy(result) THEN result ELSE @,
                !.error = IF Truthy(error) THEN error ELSE @,
                !.ended = IF Closing(status) THEN TRUE ELSE @]

\* log_execution(session, pebble_name, construct_name, pass_id, status, result,
\* error)
LogExecution(pebble_name, construct_name, pass_id, status, result, error) ==
    /\ pc = "idle"
    /\ Len(db.logs) < MaxLogs
    /\ pc' = "done"
    /\ LET failed(err) ==
               /\ outcome' = [NoOutcome EXCEPT !.op = "log_execution",
                                               !.status = "raised",
                                               !.name = pebble_name,
                                               !.arg = LogArgs(status, result, error),
                                               !.error = err]
               /\ UNCHANGED db
       IN  IF pebble_name \notin db.pebbles
           THEN failed(Err("NotFoundInDb", "pebble", pebble_name, NoName, NoName, NoName))
           ELSE IF construct_name \notin db.constructs
           THEN failed(Err("NotFoundInDb", "construct", construct_name,
                           NoName, NoName, NoName))
           ELSE /\ db' = [db EXCEPT !.logs =
                            Append(@, LogRow(pebble_name, construct_name, pass_id, status,
                                             result, error, Closing(status)))]
                /\ outcome' = [NoOutcome EXCEPT !.op = "log_execution",
                                                !.status = "returned",
                                                !.name = pebble_name,
                                                !.arg = LogArgs(status, result, error),
                                                !.result = Len(db.logs) + 1]
    /\ UNCHANGED <<PEBBLE_REGISTRY, CEMENT_REGISTRY, CONSTRUCT_REGISTRY, heap, pass,
                   con, cem, calls, log>>

\* update_execution_log(session, log_id, status, result, error)
UpdateExecutionLog(log_id, status, result, error) ==
    /\ pc = "idle"
    /\ pc' = "done"
    /\ IF log_id \notin DOMAIN db.logs
       THEN /\ outcome' = [NoOutcome EXCEPT !.op = "update_execution_log",
                                            !.status = "raised",
                                            !.arg = LogArgs(status, result, error),
                                            !.error = Err("NotFoundInDb", "log", NoName,
                                                          NoName, NoName, NoName)]
            /\ UNCHANGED db
       ELSE /\ db' = [db EXCEPT !.logs[log_id] = UpdatedRow(@, status, result, error)]
            /\ outcome' = [NoOutcome EXCEPT !.op = "update_execution_log",
                                            !.status = "returned",
                                            !.arg = LogArgs(status, result, error),
                                            !.result = log_id]
    /\ UNCHANGED <<PEBBLE_REGISTRY, CEMENT_REGISTRY, CONSTRUCT_REGISTRY, heap, pass,
                   con, cem, calls, log>>

\* the registry of a tier and its lookup
Registry(tier) ==
    IF tier = "pebble" THEN PEBBLE_REGISTRY
    ELSE IF tier = "cement" THEN CEMENT_REGISTRY
    ELSE CONSTRUCT_REGISTRY

Get(tier, name) ==
    IF tier = "pebble" THEN get_pebble(name)
    ELSE IF tier = "cement" THEN get_cement(name)
    ELSE get_construct(name)

\* the program calls get_pebble(name) / get_cement(name) / get_construct(name)
Lookup(tier, name) ==
    /\ pc = "idle"
    /\ pc' = "done"
    /\ outcome' = IF Get(tier, name).ok
                  THEN [NoOutcome EXCEPT !.op = "get", !.status = "returned",
                                         !.name = name, !.arg = tier,
                                         !.result = Get(tier, name).entry]
                  ELSE [NoOutcome EXCEPT !.op = "get", !.status = "raised",
                                         !.name = name, !.arg = tier,
                                         !.error = Get(tier, name).error]
    /\ UNCHANGED <<PEBBLE_REGISTRY, CEMENT_REGISTRY, CONSTRUCT_REGISTRY, heap, pass,
                   con, cem, calls, log>>

\* the program calls list_pebbles() / list_cements() / list_constructs():
\* list(REGISTRY.keys()), told by the names it holds
ListNames(tier) ==
    /\ pc = "idle"
    /\ pc' = "done"
    /\ outcome' = [NoOutcome EXCEPT !.op = "list", !.status = "returned",
                                    !.arg = tier, !.result = DOMAIN Registry(tier)]
    /\ UNCHANGED <<PEBBLE_REGISTRY, CEMENT_REGISTRY, CONSTRUCT_REGISTRY, heap, pass,
                   con, cem, calls, log>>

\* ----------------------------------------------------------------- database
\* register_construct_in_db(session, name): without a cement_order the row
\* of the name is created, or updated when there is one
RegisterConstructInDb(name) ==
    /\ pc = "idle"
    /\ pc' = "done"
    /\ db' = [db EXCEPT !.constructs = @ \cup {name}]
    /\ outcome' = [NoOutcome EXCEPT !.op = "register_construct_in_db",
                                    !.status = "returned", !.name = name]
    /\ UNCHANGED <<PEBBLE_REGISTRY, CEMENT_REGISTRY, CONSTRUCT_REGISTRY, heap, pass,
                   con, cem, calls, log>>

\* the arguments pass_type and schedule of register_pass_in_db
PassArgs(pass_type, schedule) == [pass_type |-> pass_type, schedule |-> schedule]

\* a row of the passes table
PassRow(construct_name, pass_type, schedule) ==
    [construct |-> construct_name, pass_type |-> pass_type, schedule |-> schedule]

\* register_pass_in_db(session, construct_name, pass_type, schedule)
RegisterPassInDb(construct_name, pass_type, schedule) ==
    /\ pc = "idle"
    /\ Len(db.passes) < MaxPasses
    /\ pc' = "done"
    /\ LET failed(error) ==
               /\ outcome' = [NoOutcome EXCEPT !.op = "register_pass_in_db",
                                               !.status = "raised",
                                               !.name = construct_name,
                                               !.arg = PassArgs(pass_type, schedule),
                                               !.error = error]
               /\ UNCHANGED db
       IN  IF pass_type \notin {"first_pass", "scheduled_pass"}
           THEN failed(Err("InvalidPassType", "pass", construct_name,
                           NoName, NoName, NoName))
           ELSE IF pass_type = "scheduled_pass" /\ ~Truthy(schedule)
           THEN failed(Err("ScheduleRequired", "pass", construct_name,
                           NoName, NoName, NoName))
           ELSE IF construct_name \notin db.constructs
           THEN failed(Err("NotFoundInDb", "construct", construct_name,
                           NoName, NoName, NoName))
           ELSE /\ db' = [db EXCEPT !.passes =
                            Append(@, PassRow(construct_name, pass_type, schedule))]
                /\ outcome' = [NoOutcome EXCEPT !.op = "register_pass_in_db",
                                                !.status = "returned",
                                                !.name = construct_name,
                                                !.arg = PassArgs(pass_type, schedule)]
    /\ UNCHANGED <<PEBBLE_REGISTRY, CEMENT_REGISTRY, CONSTRUCT_REGISTRY, heap, pass,
                   con, cem, calls, log>>

\* ----------------------------------------------------------------- execution
\* a falsy argument is replaced by one dict kept for all calls
ContextOrNewShared(h, context) ==
    IF context # None /\ h[context] # EmptyMap
    THEN [heap |-> h, context |-> context]
    ELSE IF h = <<>> THEN [heap |-> <<EmptyMap>>, context |-> 1]
    ELSE [heap |-> h, context |-> 1]

\* context = context or {}: None and the empty dict are both falsy, and a
\* falsy argument is replaced by a newly created dict
ContextOrNew(h, context) ==
    IF context = None \/ h[context] = EmptyMap
    THEN [heap |-> Append(h, EmptyMap), context |-> Len(h) + 1]
    ELSE [heap |-> h, context |-> context]

\* no value is taken for a reference
IsReferenceNever(param_value) == FALSE

\* isinstance(param_value, str) and param_value.startswith("$")
IsReference(param_value) ==
    /\ param_value.t = "str"
    /\ Len(param_value.s) >= 1
    /\ param_value.s[1] = "$"

\* param_value[1:]
ContextKey(param_value) == Tail(param_value.s)

\* a missing context key is passed as None instead of raising
RECURSIVE PrepareParametersLenient(_, _, _, _)
PrepareParametersLenient(items, i, context, parameters) ==
    IF i > Len(items) THEN [ok |-> TRUE, parameters |-> parameters, error |-> NoErr]
    ELSE LET param_name == items[i].name
             param_value == items[i].value
             key == Tail(param_value.s)
         IN  IF param_value.t = "str" /\ Len(param_value.s) >= 1 /\ param_value.s[1] = "$"
             THEN PrepareParametersLenient(items, i + 1, context,
                      SetItem(parameters, param_name,
                              IF key \in DOMAIN context THEN context[key] ELSE NoneV))
             ELSE PrepareParametersLenient(items, i + 1, context,
                      SetItem(parameters, param_name, param_value))

\* the "Prepare parameters" loop of cement_func, from entry i on, given the
\* parameters prepared so far
RECURSIVE PrepareParameters(_, _, _, _)
PrepareParameters(items, i, context, parameters) ==
    IF i > Len(items) THEN [ok |-> TRUE, parameters |-> parameters, error |-> NoErr]
    ELSE LET param_name == items[i].name
             param_value == items[i].value
         IN  IF IsReference(param_value)
             THEN IF ContextKey(param_value) \in DOMAIN context
                  THEN PrepareParameters(items, i + 1, context,
                           SetItem(parameters, param_name, context[ContextKey(param_value)]))
                  ELSE [ok |-> FALSE, parameters |-> parameters,
                        error |-> Err("MissingContextKey", "cement", NoName,
                                      ContextKey(param_value), param_name, NoName)]
             ELSE PrepareParameters(items, i + 1, context,
                      SetItem(parameters, param_name, param_value))

\* the dependencies are not checked
NoDependencyCheck(depends_on, i, context) == 0

\* the "Check dependencies" loop: the first dependency not in context, else 0
RECURSIVE FirstMissingDependency(_, _, _)
FirstMissingDependency(depends_on, i, context) ==
    IF i > Len(depends_on) THEN 0
    ELSE IF depends_on[i] \notin DOMAIN context THEN i
         ELSE FirstMissingDependency(depends_on, i + 1, context)

\* a key-value result does not overwrite the entries the context has
\* a merge that also files a dict or a model under the pebble's name
AddResultNamed(context, result, pebble_name) ==
    IF result.kind \in {"model", "dict"}
    THEN SetItem(Update(context, result.kv), pebble_name, NoneV)
    ELSE SetItem(context, pebble_name, result.val)

AddResultKeepOld(context, result, pebble_name) ==
    IF result.kind \in {"model", "dict"} THEN Update(result.kv, context)
    ELSE SetItem(context, pebble_name, result.val)

\* the "Add result to context" branches
AddResult(context, result, pebble_name) ==
    IF result.kind = "model" THEN Update(context, result.kv)
    ELSE IF result.kind = "dict" THEN Update(context, result.kv)
    ELSE SetItem(context, pebble_name, result.val)

\* one call of the pass runner's logger: logger.info / logger.error, with
\* the event its message tells, the runner that tells it and, for an error,
\* the exception whose str() the message carries
LogRecord(level, event, kind, error) ==
    [level |-> level, event |-> event, kind |-> kind, error |-> error]

\* one call of the logger by a pebble's wrapper: "Executing pebble: name",
\* "Pebble name executed in ...s", "Error executing pebble name: ..."
WrapperRecord(level, event, name) ==
    LogRecord(level, event, "pebble",
              Err(IF event = "error" THEN "UnitError" ELSE "none", "pebble", name,
                  NoName, NoName, NoName))

\* wrapper(**kwargs), the function that the decorator returns for func
\* registered under name: what func did, and the records of the logger
wrapper(name, func, kwargs) ==
    LET result == CallFunc(func, kwargs)
        start == WrapperRecord("info", "executing", name)
    IN  [result |-> result,
         records |-> IF result.kind = "raise"
                     THEN <<start, WrapperRecord("error", "error", name)>>
                     ELSE <<start, WrapperRecord("info", "executed", name)>>]

\* the program calls a decorated function by the name it bound it to, the
\* wrapper of the function last decorated under the pebble's name
CallDecorated(name, kwargs) ==
    /\ pc = "idle"
    /\ name \in DOMAIN PEBBLE_REGISTRY
    /\ pc' = "done"
    /\ LET ran == wrapper(name, PEBBLE_REGISTRY[name].function, kwargs)
       IN  /\ log' = ran.records
           /\ outcome' = [NoOutcome EXCEPT
                             !.op = "wrapper",
                             !.status = IF ran.result.kind = "raise" THEN "raised"
                                        ELSE "returned",
                             !.name = name, !.arg = kwargs]
    /\ UNCHANGED <<PEBBLE_REGISTRY, CEMENT_REGISTRY, CONSTRUCT_REGISTRY, heap, pass,
                   con, cem, calls>>

\* the error is dropped and the failed step is taken again
RaiseRetried(error) ==
    /\ pc' = pc
    /\ log' = log
    /\ outcome' = outcome

\* the pass raises an error of its own in place of the one it caught
RaiseReplaced(error) ==
    /\ pc' = "done"
    /\ log' = Append(log, LogRecord("error", "failed", pass.kind, error))
    /\ outcome' = [NoOutcome EXCEPT !.op = "pass", !.status = "raised",
                                    !.name = pass.construct_name,
                                    !.error = Err("PassError", "pass", pass.construct_name,
                                                  NoName, NoName, NoName)]

\* an exception leaves cement_func, construct_func and the pass: the pass
\* logs it and re-raises
Raise(error) ==
    /\ pc' = "done"
    /\ log' = Append(log, LogRecord("error", "failed", pass.kind, error))
    /\ outcome' = [NoOutcome EXCEPT !.op = "pass", !.status = "raised",
                                    !.name = pass.construct_name, !.error = error]

\* the cements run as they are listed
SortCementsDeclared(cement_order) == [i \in 1..Len(cement_order) |-> i]

\* sorted(cement_order, key=lambda x: x[1])
SortCements(cement_order) ==
    Sorted([i \in 1..Len(cement_order) |-> cement_order[i][2]])

\* the instructions that wait for others are put after those that do not
SortInstructionsByDependency(pebble_instructions) ==
    Sorted([i \in 1..Len(pebble_instructions) |->
               2 * pebble_instructions[i].order
                  + (IF pebble_instructions[i].depends_on = <<>> THEN 0 ELSE 1)])

\* the instructions run as they are listed
SortInstructionsDeclared(pebble_instructions) ==
    [i \in 1..Len(pebble_instructions) |-> i]

\* sorted(pebble_instructions, key=lambda x: x.order)
SortInstructions(pebble_instructions) ==
    Sorted([i \in 1..Len(pebble_instructions) |-> pebble_instructions[i].order])

\* what a pass runner leaves when it hands over to construct_func's loop, or
\* when get_construct raised
Entered(h, frame, c, at, out, lg) ==
    [heap |-> h, pass |-> frame, con |-> c, pc |-> at, outcome |-> out, log |-> lg]

\* the caller's argument: its dict, a new object of the heap, or None
Argument(given, initial) ==
    [heap |-> IF given THEN Append(heap, initial) ELSE heap,
     arg |-> IF given THEN Len(heap) + 1 ELSE None]

\* first_pass(construct_name, context) up to the first iteration of
\* construct_func's loop
first_pass(construct_name, given, initial) ==
    LET a == Argument(given, initial)
        own == ContextOrNew(a.heap, a.arg)
        frame == [kind |-> "first_pass", construct_name |-> construct_name,
                  arg |-> a.arg, context |-> own.context,
                  initial |-> IF given THEN initial ELSE EmptyMap]
        started == <<LogRecord("info", "started", "first_pass", NoErr)>>
        got == get_construct(construct_name)
        callee == ContextOrNew(own.heap, own.context)
    IN  IF ~got.ok
        THEN Entered(own.heap, frame, con, "done",
                     [NoOutcome EXCEPT !.op = "pass", !.status = "raised",
                                       !.name = construct_name, !.error = got.error],
                     Append(started, LogRecord("error", "failed", "first_pass", got.error)))
        ELSE Entered(callee.heap, frame,
                     [name |-> got.entry.name, context |-> callee.context,
                      cement_order |-> got.entry.cement_order,
                      sorted_cements |-> SortCements(got.entry.cement_order)],
                     "construct", NoOutcome, started)

\* scheduled_pass that runs the construct on a context of its own
scheduled_pass_fresh(construct_name, schedule, given, initial) ==
    LET a == Argument(given, initial)
        own == ContextOrNew(a.heap, None)
        frame == [kind |-> "scheduled_pass", construct_name |-> construct_name,
                  arg |-> a.arg, context |-> own.context,
                  initial |-> IF given THEN initial ELSE EmptyMap]
        started == <<LogRecord("info", "started", "scheduled_pass", NoErr)>>
        got == get_construct(construct_name)
        callee == ContextOrNew(own.heap, own.context)
    IN  IF ~got.ok
        THEN Entered(own.heap, frame, con, "done",
                     [NoOutcome EXCEPT !.op = "pass", !.status = "raised",
                                       !.name = construct_name, !.error = got.error],
                     Append(started,
                            LogRecord("error", "failed", "scheduled_pass", got.error)))
        ELSE Entered(callee.heap, frame,
                     [name |-> got.entry.name, context |-> callee.context,
                      cement_order |-> got.entry.cement_order,
                      sorted_cements |-> SortCements(got.entry.cement_order)],
                     "construct", NoOutcome, started)

\* scheduled_pass(construct_name, schedule, context) up to the first
\* iteration of construct_func's loop; the schedule goes to the log message
\* only
scheduled_pass(construct_name, schedule, given, initial) ==
    LET a == Argument(given, initial)
        own == ContextOrNew(a.heap, a.arg)
        frame == [kind |-> "scheduled_pass", construct_name |-> construct_name,
                  arg |-> a.arg, context |-> own.context,
                  initial |-> IF given THEN initial ELSE EmptyMap]
        started == <<LogRecord("info", "started", "scheduled_pass", NoErr)>>
        got == get_construct(construct_name)
        callee == ContextOrNew(own.heap, own.context)
    IN  IF ~got.ok
        THEN Entered(own.heap, frame, con, "done",
                     [NoOutcome EXCEPT !.op = "pass", !.status = "raised",
                                       !.name = construct_name, !.error = got.error],
                     Append(started,
                            LogRecord("error", "failed", "scheduled_pass", got.error)))
        ELSE Entered(callee.heap, frame,
                     [name |-> got.entry.name, context |-> callee.context,
                      cement_order |-> got.entry.cement_order,
                      sorted_cements |-> SortCements(got.entry.cement_order)],
                     "construct", NoOutcome, started)

\* the caller starts a pass
Enter(e) ==
    /\ pc = "idle"
    /\ heap' = e.heap
    /\ pass' = e.pass
    /\ con' = e.con
    /\ pc' = e.pc
    /\ outcome' = e.outcome
    /\ log' = e.log
    /\ calls' = <<>>
    /\ UNCHANGED <<PEBBLE_REGISTRY, CEMENT_REGISTRY, CONSTRUCT_REGISTRY, cem>>

FirstPass(construct_name, given, initial) ==
    Enter(first_pass(construct_name, given, initial))

ScheduledPass(construct_name, schedule, given, initial) ==
    Enter(scheduled_pass(construct_name, schedule, given, initial))

\* one iteration of construct_func's loop, up to the first iteration of the
\* called cement_func's loop
ConstructStep ==
    /\ pc = "construct"
    /\ con.sorted_cements # <<>>
    /\ LET pos == Head(con.sorted_cements)
           cement_name == con.cement_order[pos][1]
           got == get_cement(cement_name)
           callee == ContextOrNew(heap, con.context)
       IN  IF ~got.ok
           THEN /\ Raise(got.error)
                /\ UNCHANGED <<heap, con, cem>>
           ELSE /\ heap' = callee.heap
                /\ cem' = [name |-> got.entry.name, context |-> callee.context,
                           pebble_instructions |-> got.entry.pebble_instructions,
                           sorted_instructions |->
                               SortInstructions(got.entry.pebble_instructions),
                           pos |-> pos]
                /\ pc' = "cement"
                /\ UNCHANGED <<con, outcome, log>>
    /\ UNCHANGED <<PEBBLE_REGISTRY, CEMENT_REGISTRY, CONSTRUCT_REGISTRY, pass,
                   calls>>

\* the record of one invocation of a pebble function
Invocation(pos, idx, pebble_name, func, parameters, result) ==
    [pos |-> pos, idx |-> idx, pebble_name |-> pebble_name, func |-> func,
     parameters |-> parameters, result |-> result]

\* one iteration of cement_func's loop
CementStep ==
    /\ pc = "cement"
    /\ cem.sorted_instructions # <<>>
    /\ LET idx == Head(cem.sorted_instructions)
           instruction == cem.pebble_instructions[idx]
           pebble_data == get_pebble(instruction.pebble_name)
           context == heap[cem.context]
           prepared == PrepareParameters(instruction.parameters, 1, context, EmptyMap)
           missing == FirstMissingDependency(instruction.depends_on, 1, context)
           result == CallFunc(pebble_data.entry.function, prepared.parameters)
       IN  IF ~pebble_data.ok
           THEN /\ Raise(pebble_data.error)
                /\ UNCHANGED <<heap, cem, calls>>
           ELSE IF ~prepared.ok
           THEN /\ Raise(prepared.error)
                /\ UNCHANGED <<heap, cem, calls>>
           ELSE IF missing # 0
           THEN /\ Raise(Err("UnsatisfiedDependency", "cement", instruction.pebble_name,
                             instruction.depends_on[missing], NoName, NoName))
                /\ UNCHANGED <<heap, cem, calls>>
           ELSE /\ calls' = Append(calls,
                        Invocation(cem.pos, idx, instruction.pebble_name,
                                   pebble_data.entry.function, prepared.parameters, result))
                /\ IF result.kind = "raise"
                   THEN /\ Raise(Err("UnitError", "pebble", instruction.pebble_name,
                                     NoName, NoName, NoName))
                        /\ UNCHANGED <<heap, cem>>
                   ELSE /\ heap' = [heap EXCEPT ![cem.context] =
                                AddResult(context, result, instruction.pebble_name)]
                        /\ cem' = [cem EXCEPT !.sorted_instructions = Tail(@)]
                        /\ UNCHANGED <<pc, outcome, log>>
    /\ UNCHANGED <<PEBBLE_REGISTRY, CEMENT_REGISTRY, CONSTRUCT_REGISTRY, pass, con>>

\* a cement_func that starts its loop over when the loop is through
CementReturnAgain ==
    /\ pc = "cement"
    /\ cem.sorted_instructions = <<>>
    /\ cem' = [cem EXCEPT !.sorted_instructions = SortInstructions(cem.pebble_instructions)]
    /\ UNCHANGED <<PEBBLE_REGISTRY, CEMENT_REGISTRY, CONSTRUCT_REGISTRY, heap, pc, pass,
                   con, calls, outcome, log>>

\* the returned context is dropped: construct_func keeps its own
CementReturnDropped ==
    /\ pc = "cement"
    /\ cem.sorted_instructions = <<>>
    /\ con' = [con EXCEPT !.sorted_cements = Tail(@)]
    /\ pc' = "construct"
    /\ UNCHANGED <<PEBBLE_REGISTRY, CEMENT_REGISTRY, CONSTRUCT_REGISTRY, heap, pass,
                   cem, calls, outcome, log>>

\* cement_func returns its context: context = cement_func(context)
CementReturn ==
    /\ pc = "cement"
    /\ cem.sorted_instructions = <<>>
    /\ con' = [con EXCEPT !.context = cem.context, !.sorted_cements = Tail(@)]
    /\ pc' = "construct"
    /\ UNCHANGED <<PEBBLE_REGISTRY, CEMENT_REGISTRY, CONSTRUCT_REGISTRY, heap, pass,
                   cem, calls, outcome, log>>

\* construct_func returns its context, and the pass returns it to the caller
\* construct_func returns and the pass says nothing of it
ConstructReturnUnlogged ==
    /\ pc = "construct"
    /\ con.sorted_cements = <<>>
    /\ pc' = "done"
    /\ outcome' = [NoOutcome EXCEPT !.op = "pass", !.status = "returned",
                                    !.name = pass.construct_name, !.result = con.context]
    /\ UNCHANGED <<PEBBLE_REGISTRY, CEMENT_REGISTRY, CONSTRUCT_REGISTRY, heap, pass,
                   con, cem, calls, log>>

\* construct_func returns to the pass, which returns its result

ConstructReturn ==
    /\ pc = "construct"
    /\ con.sorted_cements = <<>>
    /\ pc' = "done"
    /\ outcome' = [NoOutcome EXCEPT !.op = "pass", !.status = "returned",
                                    !.name = pass.construct_name, !.result = con.context]
    /\ log' = Append(log, LogRecord("info", "completed", pass.kind, NoErr))
    /\ UNCHANGED <<PEBBLE_REGISTRY, CEMENT_REGISTRY, CONSTRUCT_REGISTRY, heap, pass,
                   con, cem, calls>>

\* the caller goes on after an operation returned or raised
Continue ==
    /\ pc = "done"
    /\ pc' = "idle"
    /\ heap' = <<>>
    /\ pass' = NoPass
    /\ con' = NoCon
    /\ cem' = NoCem
    /\ calls' = <<>>
    /\ outcome' = NoOutcome
    /\ log' = <<>>
    /\ UNCHANGED <<PEBBLE_REGISTRY, CEMENT_REGISTRY, CONSTRUCT_REGISTRY>>

\* ------------------------------------------------------- a call as a whole
\* what a call of cement_func / construct_func / a pass leaves: the context
\* entries, the invocations made, and the error if it raised
Ended(ok, context, made, error) ==
    [ok |-> ok, context |-> context, calls |-> made, error |-> error]

\* the loop of cement_func over the instructions still to run, in the cement
\* at position pos of its construct
RECURSIVE cement_func(_, _, _, _, _)
cement_func(pos, pebble_instructions, sorted_instructions, context, made) ==
    IF sorted_instructions = <<>> THEN Ended(TRUE, context, made, NoErr)
    ELSE LET idx == Head(sorted_instructions)
             instruction == pebble_instructions[idx]
             pebble_data == get_pebble(instruction.pebble_name)
             prepared == PrepareParameters(instruction.parameters, 1, context, EmptyMap)
             missing == FirstMissingDependency(instruction.depends_on, 1, context)
             result == CallFunc(pebble_data.entry.function, prepared.parameters)
             called == Append(made, Invocation(pos, idx, instruction.pebble_name,
                                               pebble_data.entry.function,
                                               prepared.parameters, result))
         IN  IF ~pebble_data.ok THEN Ended(FALSE, context, made, pebble_data.error)
             ELSE IF ~prepared.ok THEN Ended(FALSE, context, made, prepared.error)
             ELSE IF missing # 0
             THEN Ended(FALSE, context, made,
                        Err("UnsatisfiedDependency", "cement", instruction.pebble_name,
                            instruction.depends_on[missing], NoName, NoName))
             ELSE IF result.kind = "raise"
             THEN Ended(FALSE, context, called,
                        Err("UnitError", "pebble", instruction.pebble_name,
                            NoName, NoName, NoName))
             ELSE cement_func(pos, pebble_instructions, Tail(sorted_instructions),
                              AddResult(context, result, instruction.pebble_name), called)

\* the loop of construct_func over the cements still to run
RECURSIVE construct_func(_, _, _, _)
construct_func(cement_order, sorted_cements, context, made) ==
    IF sorted_cements = <<>> THEN Ended(TRUE, context, made, NoErr)
    ELSE LET pos == Head(sorted_cements)
             cement_data == get_cement(cement_order[pos][1])
             ran == cement_func(pos, cement_data.entry.pebble_instructions,
                                SortInstructions(cement_data.entry.pebble_instructions),
                                context, made)
         IN  IF ~cement_data.ok THEN Ended(FALSE, context, made, cement_data.error)
             ELSE IF ~ran.ok THEN ran
             ELSE construct_func(cement_order, Tail(sorted_cements), ran.context, ran.calls)

\* first_pass(construct_name, context) from call to return or raise
RunOnce(construct_name, initial) ==
    LET construct_data == get_construct(construct_name)
    IN  IF ~construct_data.ok THEN Ended(FALSE, initial, <<>>, construct_data.error)
        ELSE construct_func(construct_data.entry.cement_order,
                            SortCements(construct_data.entry.cement_order),
                            initial, <<>>)

\* ------------------------------------------------------------ two threads
\* the frames of the running thread
Frames ==
    [pc |-> pc, pass |-> pass, con |-> con, cem |-> cem, calls |-> calls,
     outcome |-> outcome, log |-> log]

\* the interpreter lets the other thread run: the thread that called a pass
\* stops where it is, the other one goes on from where it stopped
Switch ==
    /\ pass # NoPass
    /\ other' = Frames
    /\ pc' = other.pc
    /\ pass' = other.pass
    /\ con' = other.con
    /\ cem' = other.cem
    /\ calls' = other.calls
    /\ outcome' = other.outcome
    /\ log' = other.log
    /\ UNCHANGED <<PEBBLE_REGISTRY, CEMENT_REGISTRY, CONSTRUCT_REGISTRY, heap>>

\* both threads go on after their passes ended
Finish ==
    /\ other.pc = "done"
    /\ Continue
    /\ other' = NoOther

\* ------------------------------------------------------------------ history
\* the registrations as the program made them, latest per name
Latest(m, name, definition) ==
    [k \in (DOMAIN m) \cup {name} |-> IF k = name THEN definition ELSE m[k]]

\* the registered cements whose instructions name the pebble, and the
\* registered constructs whose cement_order names the cement
Referrers(tier, name) ==
    IF tier = "pebble"
    THEN {c \in DOMAIN history.cement :
             \E i \in DOMAIN history.cement[c] : history.cement[c][i].pebble_name = name}
    ELSE IF tier = "cement"
    THEN {c \in DOMAIN history.construct :
             \E i \in DOMAIN history.construct[c] : history.construct[c][i][1] = name}
    ELSE {}

\* history after a successful registration of definition under name
Recorded(tier, name, definition) ==
    LET again == name \in DOMAIN history[tier] /\ history[tier][name] # definition
        kept == {pair \in history.stale : pair[1] # name}
    IN  [history EXCEPT
            ![tier] = Latest(@, name, definition),
            !.replaced = IF again THEN @ \cup {name} ELSE @,
            !.stale = IF again
                      THEN kept \cup {<<r, name>> : r \in Referrers(tier, name)}
                      ELSE kept]

TrackPebble(name, func) ==
    /\ RegisterPebble(name, func)
    /\ history' = Recorded("pebble", name, func)

TrackCement(name, pebble_instructions) ==
    /\ DefineCement(name, pebble_instructions)
    /\ history' = IF outcome'.status = "returned"
                  THEN Recorded("cement", name, pebble_instructions)
                  ELSE history

TrackConstruct(name, cement_order) ==
    /\ DefineConstruct(name, cement_order)
    /\ history' = IF outcome'.status = "returned"
                  THEN Recorded("construct", name, cement_order)
                  ELSE history

\* --------------------------------------------------------------------- specs
Next ==
    \/ \E name \in PebbleNames : \E func \in Decorated(name) :
          RegisterPebble(name, func) /\ UNCHANGED aside
    \/ \E name \in CementNames : \E steps \in InstructionLists(name) :
          DefineCement(name, steps) /\ UNCHANGED aside
    \/ \E name \in ConstructNames, order \in CementOrders :
          DefineConstruct(name, order) /\ UNCHANGED aside
    \/ \E name \in ConstructNames, given \in BOOLEAN, initial \in ContextArgs :
          /\ given \/ initial = EmptyMap
          /\ FirstPass(name, given, initial)
          /\ UNCHANGED aside
    \/ \E name \in ConstructNames, schedule \in Schedules, given \in BOOLEAN,
          initial \in ContextArgs :
          /\ given \/ initial = EmptyMap
          /\ ScheduledPass(name, schedule, given, initial)
          /\ UNCHANGED aside
    \/ ConstructStep /\ UNCHANGED aside
    \/ CementStep /\ UNCHANGED aside
    \/ CementReturn /\ UNCHANGED aside
    \/ ConstructReturn /\ UNCHANGED aside
    \/ Continue /\ UNCHANGED aside

Spec == Init /\ [][Next]_vars

\* The program that registers again: one cement name and one construct name,
\* passes without an initial context, and the history of its registrations.
RedefinedLists == SeqsUpTo(StepPool, MaxSteps)
RedefinedOrders == SeqsUpTo({<<P, 2>>}, MaxCements)

\* the names this program registers and looks up in each registry
Tiers == {"pebble", "cement", "construct"}
Registered(tier) ==
    IF tier = "pebble" THEN PebbleNames ELSE IF tier = "cement" THEN {P} ELSE {C}

NextRereg ==
    \/ \E name \in PebbleNames : \E func \in Decorated(name) :
          TrackPebble(name, func) /\ UNCHANGED <<decorator, db, other>>
    \/ \E steps \in RedefinedLists :
          TrackCement(P, steps) /\ UNCHANGED <<decorator, db, other>>
    \/ \E order \in RedefinedOrders :
          TrackConstruct(C, order) /\ UNCHANGED <<decorator, db, other>>
    \/ \E tier \in Tiers : \E name \in Registered(tier) :
          Lookup(tier, name) /\ UNCHANGED aside
    \/ \E tier \in Tiers : ListNames(tier) /\ UNCHANGED aside
    \/ FirstPass(C, FALSE, EmptyMap) /\ UNCHANGED aside
    \/ \E schedule \in Schedules :
          ScheduledPass(C, schedule, FALSE, EmptyMap) /\ UNCHANGED aside
    \/ ConstructStep /\ UNCHANGED aside
    \/ CementStep /\ UNCHANGED aside
    \/ CementReturn /\ UNCHANGED aside
    \/ ConstructReturn /\ UNCHANGED aside
    \/ Continue /\ UNCHANGED aside

\* a call, once made, runs on: the loops of construct_func and cement_func
\* are over finite lists
Run ==
    \/ ConstructStep /\ UNCHANGED aside
    \/ CementStep /\ UNCHANGED aside
    \/ CementReturn /\ UNCHANGED aside
    \/ ConstructReturn /\ UNCHANGED aside

\* The program of one cement and one construct whose calls run on.
NextLive ==
    \/ \E name \in PebbleNames : \E func \in Decorated(name) :
          RegisterPebble(name, func) /\ UNCHANGED aside
    \/ \E steps \in RedefinedLists : DefineCement(P, steps) /\ UNCHANGED aside
    \/ \E order \in RedefinedOrders : DefineConstruct(C, order) /\ UNCHANGED aside
    \/ \E given \in BOOLEAN, initial \in ContextArgs :
          /\ given \/ initial = EmptyMap
          /\ FirstPass(C, given, initial)
          /\ UNCHANGED aside
    \/ \E schedule \in Schedules, given \in BOOLEAN, initial \in ContextArgs :
          /\ given \/ initial = EmptyMap
          /\ ScheduledPass(C, schedule, given, initial)
          /\ UNCHANGED aside
    \/ Run
    \/ Continue /\ UNCHANGED aside

SpecLive == Init /\ [][NextLive]_vars /\ WF_vars(Run)

\* The ETL example: its pebbles, cements over its three instructions and
\* order_summary_etl are defined, and first_pass runs it.
NextEtl ==
    \/ \E name \in {EC, EO, TR} : \E func \in Decorated(name) :
          RegisterPebble(name, func) /\ UNCHANGED aside
    \/ \E steps \in EtlLists : DefineCement(ETL, steps) /\ UNCHANGED aside
    \/ \E order \in EtlOrders : DefineConstruct(OSE, order) /\ UNCHANGED aside
    \/ FirstPass(OSE, FALSE, EmptyMap) /\ UNCHANGED aside
    \/ ConstructStep /\ UNCHANGED aside
    \/ CementStep /\ UNCHANGED aside
    \/ CementReturn /\ UNCHANGED aside
    \/ ConstructReturn /\ UNCHANGED aside
    \/ Continue /\ UNCHANGED aside

SpecEtl == Init /\ [][NextEtl]_vars

\* The program that decorates: it calls pebble() with or without name and
\* description, applies the decorator it got to its functions, one after
\* another, and looks the pebbles up.
DecoratorNames == {NoneV, StrV(U)}
DecoratorDescriptions == {NoneV, StrV(<<"g">>)}
DecoratedFuncs == {"extract_customers", "f_model", "f_kv"}

NextDecorator ==
    \/ \E name \in DecoratorNames, description \in DecoratorDescriptions :
          /\ MakeDecorator(name, description)
          /\ UNCHANGED <<PEBBLE_REGISTRY, CEMENT_REGISTRY, CONSTRUCT_REGISTRY, heap, pc,
                         pass, con, cem, calls, outcome, log, history, db, other>>
    \/ \E func \in DecoratedFuncs :
          ApplyDecorator(func) /\ UNCHANGED <<history, db, other>>
    \/ \E name \in {U, EC} : Lookup("pebble", name) /\ UNCHANGED aside
    \/ Continue /\ UNCHANGED aside

SpecDecorator == Init /\ [][NextDecorator]_vars

\* The program that records in the database: construct rows, then passes of
\* any pass_type with or without a schedule.
PassTypes == {"first_pass", "scheduled_pass", "third_pass"}
ScheduleArgs == {NoneV, StrV(<<>>)} \cup {StrV(schedule) : schedule \in Schedules}

NextDb ==
    \/ \E name \in ConstructNames :
          RegisterConstructInDb(name) /\ UNCHANGED <<history, decorator, other>>
    \/ \E name \in ConstructNames, pass_type \in PassTypes, schedule \in ScheduleArgs :
          RegisterPassInDb(name, pass_type, schedule)
             /\ UNCHANGED <<history, decorator, other>>
    \/ Continue /\ UNCHANGED aside

SpecDb == Init /\ [][NextDb]_vars

\* The program of two threads: it registers and defines while no pass runs,
\* then each thread calls first_pass, with a context of its own or without
\* one, and their steps interleave.
NextTwo ==
    \/ \E name \in PebbleNames : \E func \in Decorated(name) :
          other = NoOther /\ RegisterPebble(name, func) /\ UNCHANGED aside
    \/ \E steps \in RedefinedLists :
          other = NoOther /\ DefineCement(P, steps) /\ UNCHANGED aside
    \/ \E order \in RedefinedOrders :
          other = NoOther /\ DefineConstruct(C, order) /\ UNCHANGED aside
    \/ \E given \in BOOLEAN, initial \in ContextArgs :
          /\ given \/ initial = EmptyMap
          /\ FirstPass(C, given, initial)
          /\ UNCHANGED aside
    \/ ConstructStep /\ UNCHANGED aside
    \/ CementStep /\ UNCHANGED aside
    \/ CementReturn /\ UNCHANGED aside
    \/ ConstructReturn /\ UNCHANGED aside
    \/ Switch /\ UNCHANGED <<history, decorator, db>>
    \/ other = NoOther /\ Continue /\ UNCHANGED aside
    \/ Finish /\ UNCHANGED <<history, decorator, db>>

SpecTwo == Init /\ [][NextTwo]_vars

\* The program whose cements differ in their depends_on lists.
NextDependency ==
    \/ \E name \in PebbleNames : \E func \in Decorated(name) :
          RegisterPebble(name, func) /\ UNCHANGED aside
    \/ \E steps \in DependencyLists : DefineCement(P, steps) /\ UNCHANGED aside
    \/ \E order \in RedefinedOrders : DefineConstruct(C, order) /\ UNCHANGED aside
    \/ \E given \in BOOLEAN, initial \in ContextArgs :
          /\ given \/ initial = EmptyMap
          /\ FirstPass(C, given, initial)
          /\ UNCHANGED aside
    \/ Run
    \/ Continue /\ UNCHANGED aside

SpecDependency == Init /\ [][NextDependency]_vars

\* The program that also calls its decorated functions itself.
DirectArgs == {EmptyMap, [k \in {PX} |-> IntV(5)]}

NextWrapper ==
    \/ \E name \in PebbleNames : \E func \in Decorated(name) :
          RegisterPebble(name, func) /\ UNCHANGED aside
    \/ \E name \in PebbleNames, kwargs \in DirectArgs :
          CallDecorated(name, kwargs) /\ UNCHANGED aside
    \/ \E steps \in RedefinedLists : DefineCement(P, steps) /\ UNCHANGED aside
    \/ \E order \in RedefinedOrders : DefineConstruct(C, order) /\ UNCHANGED aside
    \/ \E given \in BOOLEAN, initial \in ContextArgs :
          /\ given \/ initial = EmptyMap
          /\ FirstPass(C, given, initial)
          /\ UNCHANGED aside
    \/ Run
    \/ Continue /\ UNCHANGED aside

SpecWrapper == Init /\ [][NextWrapper]_vars

\* The program that defines its cements and constructs again and again, some
\* of the definitions failing, with the history of the ones that succeeded.
FailedLists ==
    SeqsUpTo({ CementInstruction(U, <<Param(PX, IntV(5))>>, 1, <<>>),
               CementInstruction(V, <<>>, 2, <<>>) }, MaxSteps - 1)

FailedOrders == SeqsUpTo(CementOrderPool, MaxCements - 1)

NextFailed ==
    \/ \E name \in PebbleNames :
          TrackPebble(name, "f_kv") /\ UNCHANGED <<decorator, db, other>>
    \/ \E name \in CementNames : \E steps \in FailedLists :
          TrackCement(name, steps) /\ UNCHANGED <<decorator, db, other>>
    \/ \E name \in ConstructNames, order \in FailedOrders :
          TrackConstruct(name, order) /\ UNCHANGED <<decorator, db, other>>
    \/ \E name \in ConstructNames : FirstPass(name, FALSE, EmptyMap) /\ UNCHANGED aside
    \/ Run
    \/ Continue /\ UNCHANGED aside

SpecFailed == Init /\ [][NextFailed]_vars

\* The program whose pebbles return a dict, a model, an int or None.
MergeDecorated(name) ==
    IF name = U THEN {"f_kv", "f_none", "f_scalar"} ELSE {"f_kv", "f_model"}

NextMerge ==
    \/ \E name \in PebbleNames : \E func \in MergeDecorated(name) :
          RegisterPebble(name, func) /\ UNCHANGED aside
    \/ \E steps \in MergeLists : DefineCement(P, steps) /\ UNCHANGED aside
    \/ \E order \in RedefinedOrders : DefineConstruct(C, order) /\ UNCHANGED aside
    \/ \E given \in BOOLEAN, initial \in ContextArgs :
          /\ given \/ initial = EmptyMap
          /\ FirstPass(C, given, initial)
          /\ UNCHANGED aside
    \/ Run
    \/ Continue /\ UNCHANGED aside

SpecMerge == Init /\ [][NextMerge]_vars

\* The program that keeps execution logs: it records its pebble, its construct
\* and a pass, then logs executions of the pass and updates the logs.
LogStatuses == {StrV(PENDING), StrV(RUNNING), StrV(COMPLETED), StrV(FAILED)}
UpdateStatuses == {NoneV, StrV(<<>>), StrV(RUNNING), StrV(COMPLETED)}
Payloads == {LogArgs(NoneV, NoneV, NoneV), LogArgs(NoneV, DictV(1), NoneV),
             LogArgs(NoneV, DictV(0), NoneV), LogArgs(NoneV, NoneV, StrV(<<"e">>))}

NextLog ==
    \/ RegisterPebbleInDb(U) /\ UNCHANGED <<history, decorator, other>>
    \/ RegisterConstructInDb(C) /\ UNCHANGED <<history, decorator, other>>
    \/ RegisterPassInDb(C, "first_pass", NoneV) /\ UNCHANGED <<history, decorator, other>>
    \/ \E pass_id \in DOMAIN db.passes, status \in LogStatuses, payload \in Payloads :
          LogExecution(U, C, pass_id, status, payload.result, payload.error)
             /\ UNCHANGED <<history, decorator, other>>
    \/ \E log_id \in 1..MaxLogs, status \in UpdateStatuses, payload \in Payloads :
          UpdateExecutionLog(log_id, status, payload.result, payload.error)
             /\ UNCHANGED <<history, decorator, other>>
    \/ Continue /\ UNCHANGED aside

SpecLog == Init /\ [][NextLog]_vars

SpecRereg == Init /\ [][NextRereg]_vars

\* ==================================================================== claims
\* the invocations made so far by the cement at position pos of the construct
FrameCalls(pos) == SelectSeq(calls, LAMBDA c : c.pos = pos)

\* the entries an invocation's result puts into the context
Writes(c) ==
    IF c.result.kind \in {"dict", "model"} THEN c.result.kv
    ELSE IF c.result.kind = "scalar" THEN [k \in {c.pebble_name} |-> c.result.val]
    ELSE EmptyMap

\* a cement_func frame whose loop has run to its end
FrameCompleted ==
    /\ cem.pos # 0
    /\ cem.sorted_instructions = <<>>

\* C1: the invocations of a cement run follow ascending order, equal orders in
\* declaration order; each invokes the pebble its instruction names; when the
\* loop has run to its end every instruction has been invoked exactly once.
C1_StableOrder ==
    cem.pos # 0 =>
        LET made == FrameCalls(cem.pos)
            steps == cem.pebble_instructions
        IN  /\ \A i \in DOMAIN made :
                  /\ made[i].idx \in DOMAIN steps
                  /\ made[i].pebble_name = steps[made[i].idx].pebble_name
            /\ \A i, j \in DOMAIN made :
                  i < j =>
                     \/ steps[made[i].idx].order < steps[made[j].idx].order
                     \/ /\ steps[made[i].idx].order = steps[made[j].idx].order
                        /\ made[i].idx < made[j].idx
            /\ FrameCompleted =>
                  /\ Len(made) = Len(steps)
                  /\ {made[i].idx : i \in DOMAIN made} = DOMAIN steps

\* a completed cement run that invoked a later-declared instruction first
C1_Witness ==
    /\ FrameCompleted
    /\ Len(FrameCalls(cem.pos)) = 2
    /\ FrameCalls(cem.pos)[1].idx = 2
    /\ FrameCalls(cem.pos)[2].idx = 1

\* the value the cement at position pos last wrote under key k
FinalValue(pos, k) ==
    LET writers == {i \in DOMAIN calls : calls[i].pos = pos /\ k \in DOMAIN Writes(calls[i])}
        last == CHOOSE i \in writers : \A j \in writers : j <= i
    IN  Writes(calls[last])[k]

WrittenKeys(pos) ==
    UNION {DOMAIN Writes(calls[i]) : i \in {j \in DOMAIN calls : calls[j].pos = pos}}

\* C2: in a construct of two cements, the one of smaller order (p1) is run to
\* its end before the other (p2) invokes anything; when p2's first instruction
\* is reached the context holds every key p1 wrote, with p1's final value, and
\* the keys stay present while p2 runs.
C2_PipelineOrder ==
    \A p1, p2 \in DOMAIN con.cement_order :
        (Len(con.cement_order) = 2 /\ con.cement_order[p1][2] < con.cement_order[p2][2]) =>
            /\ \A i, j \in DOMAIN calls :
                  (calls[i].pos = p1 /\ calls[j].pos = p2) => i < j
            /\ (pc = "cement" /\ cem.pos = p2) =>
                  /\ Len(FrameCalls(p1)) =
                        Len(CEMENT_REGISTRY[con.cement_order[p1][1]].pebble_instructions)
                  /\ \A k \in WrittenKeys(p1) :
                        /\ k \in DOMAIN heap[cem.context]
                        /\ FrameCalls(p2) = <<>> =>
                              heap[cem.context][k] = FinalValue(p1, k)

\* the second cement is about to run an instruction whose "$" parameter names
\* a key the first cement wrote
C2_Witness ==
    /\ pc = "cement"
    /\ Len(con.cement_order) = 2
    /\ con.cement_order[1][2] > con.cement_order[2][2]
    /\ cem.pos = 1
    /\ FrameCalls(1) = <<>>
    /\ cem.sorted_instructions # <<>>
    /\ LET instruction == cem.pebble_instructions[Head(cem.sorted_instructions)]
       IN  /\ instruction.parameters # <<>>
           /\ instruction.parameters[1].value = StrV(<<"$", "a">>)
           /\ KA \in WrittenKeys(2)
           /\ instruction.depends_on = <<KA>>

\* the step invoked a pebble function: the invocation it appended to calls
Invoked == pc = "cement" /\ Len(calls') = Len(calls) + 1
NewCall == calls'[Len(calls')]

\* a parameter value that is a string beginning with "$"
Dollar(v) == v.t = "str" /\ v.s # <<>> /\ Head(v.s) = "$"
\* the remainder of the string
AfterDollar(v) == SubSeq(v.s, 2, Len(v.s))

\* the instruction the cement_func frame is about to run
AtInstruction == pc = "cement" /\ cem.sorted_instructions # <<>>
CurrentInstruction == cem.pebble_instructions[Head(cem.sorted_instructions)]

\* the keys its "$" parameters name that the context lacks
MissingKeys ==
    {AfterDollar(CurrentInstruction.parameters[i].value) :
        i \in {j \in DOMAIN CurrentInstruction.parameters :
                  /\ Dollar(CurrentInstruction.parameters[j].value)
                  /\ AfterDollar(CurrentInstruction.parameters[j].value)
                        \notin DOMAIN heap[cem.context]}}

\* the names of its depends_on list that the context lacks
MissingDependencies ==
    {CurrentInstruction.depends_on[i] :
        i \in {j \in DOMAIN CurrentInstruction.depends_on :
                  CurrentInstruction.depends_on[j] \notin DOMAIN heap[cem.context]}}

\* the step ends the pass with an error of the given kind, invoking nothing and
\* leaving every context as it was
FailsWith(kind) ==
    /\ pc' = "done"
    /\ outcome'.op = "pass"
    /\ outcome'.status = "raised"
    /\ outcome'.error.kind = kind
    /\ calls' = calls
    /\ heap' = heap

\* C3: a pebble is called with, for each parameter of its instruction, the
\* context value under k when the parameter is "$k" and k is in the context,
\* and the literal value when the parameter is no "$" string; preparing the
\* parameters changes no context entry (only the result's entries change, and
\* nothing changes when the pebble is not called).
C3_Step ==
    /\ Invoked =>
          LET c == NewCall
              instruction == cem.pebble_instructions[c.idx]
              context == heap[cem.context]
          IN  /\ c.idx = Head(cem.sorted_instructions)
              /\ DOMAIN c.parameters =
                    {instruction.parameters[i].name : i \in DOMAIN instruction.parameters}
              /\ \A i \in DOMAIN instruction.parameters :
                    LET v == instruction.parameters[i].value
                        given == c.parameters[instruction.parameters[i].name]
                    IN  /\ (Dollar(v) /\ AfterDollar(v) \in DOMAIN context) =>
                              given = context[AfterDollar(v)]
                        /\ ~Dollar(v) => given = v
              /\ \A k \in (DOMAIN context) \ (DOMAIN Writes(c)) :
                    /\ k \in DOMAIN heap'[cem.context]
                    /\ heap'[cem.context][k] = context[k]
    /\ (pc = "cement" /\ calls' = calls) => heap' = heap

C3_ParameterResolution == [][C3_Step]_vars

\* a pebble was called with the value an earlier instruction of the same pass
\* wrote, next to a pebble called with literal values
C3_Witness ==
    /\ Len(calls) = 2
    /\ calls[1].parameters = [k \in {PX, PY} |-> IF k = PX THEN IntV(5) ELSE StrV(<<"a">>)]
    /\ calls[1].result.kind = "dict"
    /\ calls[2].parameters = [k \in {PX} |-> IntV(5)]
    /\ pass.arg = None

\* C4: an instruction with a "$k" parameter whose k is not in the context ends
\* the run with the missing-context-key error for such a k: no pebble is
\* invoked by it, the context stays as the preceding instructions left it, and
\* after the failure nothing more is invoked.
C4_Step ==
    /\ (AtInstruction /\ MissingKeys # {}) =>
          /\ FailsWith("MissingContextKey")
          /\ outcome'.error.key \in MissingKeys
    /\ pc = "done" => (pc' = "idle" /\ calls' = <<>>)

C4_MissingContextKey == [][C4_Step]_vars

\* a run that failed on a missing context key after an earlier instruction ran
C4_Witness ==
    /\ pc = "done"
    /\ outcome.error.kind = "MissingContextKey"
    /\ outcome.error.key = KA
    /\ outcome.error.param = PX
    /\ Len(calls) = 1
    /\ heap[cem.context] = [k \in {U} |-> IntV(2)]

\* C5: after a pebble returns, the context holds every entry of a key-value
\* result (a dict or a model), overwriting what was under those keys, and
\* holds any other result under the name the pebble is registered under.
C5_Step ==
    (Invoked /\ NewCall.result.kind # "raise") =>
        LET c == NewCall
            after == heap'[cem.context]
        IN  /\ c.pebble_name \in DOMAIN PEBBLE_REGISTRY
            /\ PEBBLE_REGISTRY[c.pebble_name].function = c.func
            /\ c.result = CallFunc(c.func, c.parameters)
            /\ IF c.result.kind \in {"dict", "model"}
               THEN \A k \in DOMAIN c.result.kv :
                        k \in DOMAIN after /\ after[k] = c.result.kv[k]
               ELSE c.pebble_name \in DOMAIN after /\ after[c.pebble_name] = c.result.val

C5_MergeResult == [][C5_Step]_vars

\* a scalar result stored under the pebble's name, then a dict result that
\* overwrote the caller's value of "a"
C5_Witness ==
    /\ pass.arg # None
    /\ cem.context = pass.arg
    /\ Len(calls) = 2
    /\ calls[1].result.kind = "scalar"
    /\ calls[2].result.kind = "dict"
    /\ heap[pass.arg] = [k \in {KA, U} |-> IF k = KA THEN IntV(1) ELSE IntV(2)]

\* C6 as claimed: an instruction with a depends_on name that is not in the
\* context ends the run with the unsatisfied-dependency error, invoking nothing.
C6_Claimed_Step ==
    (AtInstruction /\ MissingDependencies # {}) => FailsWith("UnsatisfiedDependency")

C6_Claimed == [][C6_Claimed_Step]_vars

\* C6 amended: such an instruction ends the run, invoking nothing; the error
\* is the unsatisfied-dependency error for such a name when every "$"
\* parameter of the instruction is in the context, and the missing-context-key
\* error otherwise (parameters are prepared before dependencies are checked).
C6_Step ==
    /\ (AtInstruction /\ MissingDependencies # {}) =>
          IF MissingKeys = {}
          THEN /\ FailsWith("UnsatisfiedDependency")
               /\ outcome'.error.key \in MissingDependencies
               /\ outcome'.error.name = CurrentInstruction.pebble_name
          ELSE FailsWith("MissingContextKey")
    /\ pc = "done" => (pc' = "idle" /\ calls' = <<>>)

C6_UnsatisfiedDependency == [][C6_Step]_vars

\* a run that failed on a dependency, with an instruction still to run
C6_Witness ==
    /\ pc = "done"
    /\ outcome.error.kind = "UnsatisfiedDependency"
    /\ outcome.error.key = U
    /\ Len(cem.sorted_instructions) = 2
    /\ calls = <<>>

\* C7: cement() given a list with an instruction whose pebble is not
\* registered raises the validation error naming the cement, wherever the
\* instruction stands in the list, and invokes nothing.
C7_CementValidation ==
    (pc = "done" /\ outcome.op = "cement"
        /\ \E i \in DOMAIN outcome.arg :
              outcome.arg[i].pebble_name \notin DOMAIN PEBBLE_REGISTRY) =>
        /\ outcome.status = "raised"
        /\ outcome.error.kind = "Validation"
        /\ outcome.error.tier = "cement"
        /\ outcome.error.name = outcome.name
        /\ calls = <<>>
        /\ heap = <<>>

\* a failed definition whose first instruction names a registered pebble
C7_Witness ==
    /\ pc = "done"
    /\ outcome.op = "cement"
    /\ outcome.status = "raised"
    /\ Len(outcome.arg) = 2
    /\ outcome.arg[1].pebble_name \in DOMAIN PEBBLE_REGISTRY
    /\ outcome.arg[2].pebble_name \notin DOMAIN PEBBLE_REGISTRY

\* C8: construct() given a list naming a cement that is not registered raises
\* the validation error naming the construct, and invokes nothing.
C8_ConstructValidation ==
    (pc = "done" /\ outcome.op = "construct"
        /\ \E i \in DOMAIN outcome.arg :
              outcome.arg[i][1] \notin DOMAIN CEMENT_REGISTRY) =>
        /\ outcome.status = "raised"
        /\ outcome.error.kind = "Validation"
        /\ outcome.error.tier = "construct"
        /\ outcome.error.name = outcome.name
        /\ calls = <<>>
        /\ heap = <<>>

\* a failed definition whose first entry names a registered cement
C8_Witness ==
    /\ pc = "done"
    /\ outcome.op = "construct"
    /\ outcome.status = "raised"
    /\ Len(outcome.arg) = 2
    /\ outcome.arg[1][1] \in DOMAIN CEMENT_REGISTRY
    /\ outcome.arg[2][1] \notin DOMAIN CEMENT_REGISTRY

\* C10 as claimed: a pass given a context mapping returns that same object,
\* and every level of the pass works on it.
C10_Claimed ==
    (pc = "done" /\ outcome.op = "pass" /\ outcome.status = "returned"
        /\ pass.arg # None) =>
        /\ outcome.result = pass.arg
        /\ pass.context = pass.arg
        /\ con.context = pass.arg
        /\ cem.pos # 0 => cem.context = pass.arg

\* C9: a pass runs the construct last registered under its name, a construct
\* runs the cement last registered under each name of its cement_order, and a
\* cement calls the function last registered under each pebble name: after a
\* name is registered again no replaced definition is run, also when the
\* referring cement or construct was defined before.
C9_LatestDefinition ==
    /\ pc \in {"construct", "cement"} =>
          /\ pass.construct_name \in DOMAIN history.construct
          /\ con.cement_order = history.construct[pass.construct_name]
    /\ (pc \in {"construct", "cement"} /\ cem.pos # 0) =>
          /\ con.cement_order[cem.pos][1] \in DOMAIN history.cement
          /\ cem.pebble_instructions = history.cement[con.cement_order[cem.pos][1]]
    /\ \A i \in DOMAIN calls :
          /\ calls[i].pebble_name \in DOMAIN history.pebble
          /\ calls[i].func = history.pebble[calls[i].pebble_name]
          /\ calls[i].pebble_name =
                history.cement[con.cement_order[calls[i].pos][1]][calls[i].idx].pebble_name

\* a pass of a construct registered again, running a cement that was
\* registered again after the construct was defined, calling a pebble that was
\* registered again after the cement was defined
C9_Witness ==
    /\ calls # <<>>
    /\ pass.construct_name \in history.replaced
    /\ <<pass.construct_name, con.cement_order[cem.pos][1]>> \in history.stale
    /\ <<con.cement_order[cem.pos][1], calls[Len(calls)].pebble_name>> \in history.stale

\* the invocations of the running pass that wrote key k, and the value the
\* last of them wrote
Writers(k) == {i \in DOMAIN calls : k \in DOMAIN Writes(calls[i])}
LastWritten(k) ==
    LET i == CHOOSE w \in Writers(k) : \A o \in Writers(k) : o <= w
    IN  Writes(calls[i])[k]

\* a pass that a failing step ended: missing context key, unsatisfied
\* dependency or the pebble function raising
StepFailed ==
    /\ pc = "done"
    /\ outcome.op = "pass"
    /\ outcome.status = "raised"
    /\ outcome.error.kind \in {"MissingContextKey", "UnsatisfiedDependency", "UnitError"}

\* C11 as claimed: when a step fails the pass is reported failed, and every
\* entry the completed steps merged is in the context object the caller
\* passed to the pass, with the value last written.
C11_Claimed ==
    (StepFailed /\ pass.arg # None) =>
        /\ log[Len(log)].event = "failed"
        /\ \A i \in DOMAIN calls : \A k \in DOMAIN Writes(calls[i]) :
              /\ k \in DOMAIN heap[pass.arg]
              /\ heap[pass.arg][k] = LastWritten(k)

\* the step ends the pass with error e: the caller gets e itself, and the log
\* of the pass ends with its only error record, which tells e
Propagates(e) ==
    /\ pc' = "done"
    /\ outcome'.op = "pass"
    /\ outcome'.status = "raised"
    /\ outcome'.error = e
    /\ log'[Len(log')] = LogRecord("error", "failed", pass'.kind, e)
    /\ \A i \in DOMAIN log' : log'[i].level = "error" => i = Len(log')

\* C12: an error detected during a pass (construct not registered, "$" key
\* missing, dependency missing, pebble function raising) is the error the
\* caller of first_pass/scheduled_pass gets, unchanged; the failing step is
\* not run again, the pass logs the error once, and no other error arises.
C12_Step ==
    /\ (pc = "idle" /\ pass' # NoPass
            /\ pass'.construct_name \notin DOMAIN CONSTRUCT_REGISTRY) =>
          Propagates(Err("NotFound", "construct", pass'.construct_name,
                         NoName, NoName, NoName))
    /\ (AtInstruction /\ MissingKeys # {}) =>
          \E i \in DOMAIN CurrentInstruction.parameters :
             /\ Dollar(CurrentInstruction.parameters[i].value)
             /\ AfterDollar(CurrentInstruction.parameters[i].value) \in MissingKeys
             /\ Propagates(Err("MissingContextKey", "cement", NoName,
                               AfterDollar(CurrentInstruction.parameters[i].value),
                               CurrentInstruction.parameters[i].name, NoName))
    /\ (AtInstruction /\ MissingKeys = {} /\ MissingDependencies # {}) =>
          \E d \in MissingDependencies :
             Propagates(Err("UnsatisfiedDependency", "cement",
                            CurrentInstruction.pebble_name, d, NoName, NoName))
    /\ (Invoked /\ NewCall.result.kind = "raise") =>
          /\ Propagates(Err("UnitError", "pebble", NewCall.pebble_name,
                            NoName, NoName, NoName))
          /\ SubSeq(calls', 1, Len(calls)) = calls
    /\ (pc # "done" /\ pc' = "done" /\ outcome'.op = "pass"
            /\ outcome'.status = "raised") =>
          \/ pc = "idle" /\ pass'.construct_name \notin DOMAIN CONSTRUCT_REGISTRY
          \/ AtInstruction /\ (MissingKeys # {} \/ MissingDependencies # {})
          \/ Invoked /\ NewCall.result.kind = "raise"

C12_ErrorPropagation == [][C12_Step]_vars

\* a scheduled pass over the caller's context that a pebble function ended
\* by raising: the caller has the function's error, logged once
C12_Witness ==
    /\ pc = "done"
    /\ pass.kind = "scheduled_pass"
    /\ pass.arg # None
    /\ outcome.status = "raised"
    /\ outcome.error = Err("UnitError", "pebble", U, NoName, NoName, NoName)
    /\ calls[Len(calls)].func = "f_raise"
    /\ log = <<LogRecord("info", "started", "scheduled_pass", NoErr),
               LogRecord("error", "failed", "scheduled_pass", outcome.error)>>

\* the state of the pass invocation, as the records of the pass tell it
PassState ==
    IF log = <<>> THEN "Pending"
    ELSE IF log[Len(log)].event = "started" THEN "Running"
    ELSE IF log[Len(log)].event = "completed" THEN "Completed"
    ELSE "Failed"

C13_Inv ==
    /\ PassState \in {"Pending", "Running", "Completed", "Failed"}
    /\ PassState = "Pending" <=> pass = NoPass
    /\ PassState = "Running" <=> pc \in {"construct", "cement"}
    /\ PassState = "Completed" <=>
          (pc = "done" /\ outcome.op = "pass" /\ outcome.status = "returned")
    /\ PassState = "Failed" <=>
          (pc = "done" /\ outcome.op = "pass" /\ outcome.status = "raised")
    /\ \A i \in DOMAIN log :
          /\ log[i].event = "started" <=> i = 1
          /\ log[i].event \in {"completed", "failed"} => i = Len(log)
          /\ log[i].kind = pass.kind

C13_Step ==
    /\ (pass = NoPass /\ pass' # NoPass) => log'[1].event = "started"
    /\ PassState = "Pending" => PassState' \in {"Pending", "Running", "Failed"}
    /\ PassState = "Running" => PassState' \in {"Running", "Completed", "Failed"}
    /\ PassState \in {"Completed", "Failed"} =>
          (pass' = NoPass /\ log' = <<>> /\ calls' = <<>>)

\* C13: a pass invocation is Pending until called, Running from its call on,
\* Completed exactly when construct_func returned and Failed exactly when an
\* error left it; it reaches one of the two, is in no other state, and once
\* Completed or Failed the invocation takes no further step.
C13_PassStateMachine ==
    /\ []C13_Inv
    /\ [][C13_Step]_vars
    /\ (PassState = "Running") ~> (PassState \in {"Completed", "Failed"})

\* a pass that ran two pebble functions and returned, and its three states
C13_Witness ==
    /\ PassState = "Completed"
    /\ Len(calls) = 2
    /\ log = <<LogRecord("info", "started", "first_pass", NoErr),
               LogRecord("info", "completed", "first_pass", NoErr)>>

\* a pass runner's hand-over, but for the runner's name
Handed(e) ==
    [e EXCEPT !.pass.kind = "pass",
              !.log = [i \in DOMAIN e.log |-> [e.log[i] EXCEPT !.kind = "pass"]]]

\* the ended pass made the invocations of run and left what run left
EndedAs(run) ==
    /\ calls = run.calls
    /\ outcome.op = "pass"
    /\ run.ok => (outcome.status = "returned" /\ heap[outcome.result] = run.context)
    /\ ~run.ok => (outcome.status = "raised" /\ outcome.error = run.error)

\* C14: on the same registries, construct name and initial context,
\* scheduled_pass calls the same pebble functions in the same order with the
\* same parameters as first_pass and ends with the same context or the same
\* error, whatever the schedule; one call runs the construct once.
C14_SameAsFirstPass ==
    /\ pc = "idle" =>
          \A name \in ConstructNames, schedule \in Schedules, given \in BOOLEAN,
             initial \in ContextArgs :
             Handed(scheduled_pass(name, schedule, given, initial))
                = Handed(first_pass(name, given, initial))
    /\ (pc = "done" /\ pass.kind \in {"first_pass", "scheduled_pass"}) =>
          EndedAs(RunOnce(pass.construct_name, pass.initial))

\* a scheduled pass over a caller's context with an entry ended after two
\* invocations, the second with a parameter taken from that entry
C14_Witness ==
    /\ pc = "done"
    /\ pass.kind = "scheduled_pass"
    /\ pass.initial = [k \in {KA} |-> IntV(7)]
    /\ outcome.status = "returned"
    /\ Len(calls) = 2
    /\ calls[2].parameters = [k \in {PX} |-> IntV(7)]

\* the cement holds the three ETL instructions, once each
HoldsEtlSteps(pebble_instructions) ==
    /\ Len(pebble_instructions) = 3
    /\ {pebble_instructions[i] : i \in DOMAIN pebble_instructions} = EtlStepPool

\* a first_pass without a context has ended, of a construct of one cement
\* that holds the three ETL instructions
EtlRan ==
    /\ pc = "done"
    /\ outcome.op = "pass"
    /\ pass.arg = None
    /\ Len(con.cement_order) = 1
    /\ HoldsEtlSteps(cem.pebble_instructions)

\* C15: first_pass, without a context, of a construct of the one cement that
\* holds extract_customers, extract_orders and the transform taking both by
\* "$" references returns a context with both extracts' lists under the
\* extracts' names and with the summary list computed from them: under the
\* transform's name when the transform returns the list, under the keys of
\* the result when it returns a dict.
C15_EtlEndToEnd ==
    EtlRan =>
        /\ outcome.status = "returned"
        /\ LET context == heap[outcome.result]
               customers == CallFunc(PEBBLE_REGISTRY[EC].function, EmptyMap).val
               orders == CallFunc(PEBBLE_REGISTRY[EO].function, EmptyMap).val
               summary == ListV(OrderSummaries(customers.s, orders.s, 1, {}))
               returns == calls[Len(calls)].result
           IN  /\ {EC, EO} \subseteq DOMAIN context
               /\ context[EC] = customers
               /\ context[EO] = orders
               /\ summary.s # <<>>
               /\ returns.kind = "scalar" =>
                     /\ DOMAIN context = {EC, EO, TR}
                     /\ context[TR] = summary
               /\ returns.kind = "dict" =>
                     /\ DOMAIN context = {EC, EO} \cup DOMAIN returns.kv
                     /\ \A k \in DOMAIN returns.kv : context[k] = returns.kv[k]
                     /\ context[SUMMARY] = summary
               /\ returns.kind \in {"scalar", "dict"}

\* the ETL pass returned with the summaries of customers 1 (two orders) and 2
\* (one order) under the result's own key, the instructions having been
\* listed transform first
C15_Witness ==
    /\ EtlRan
    /\ cem.pebble_instructions[1].pebble_name = TR
    /\ outcome.status = "returned"
    /\ SUMMARY \in DOMAIN heap[outcome.result]
    /\ heap[outcome.result][SUMMARY] = ListV(<<"1", "2", "2", "1">>)

\* the definition an entry of a registry holds
Definition(tier, entry) ==
    IF tier = "pebble" THEN entry.function
    ELSE IF tier = "cement" THEN entry.pebble_instructions
    ELSE entry.cement_order

\* C16: a name successfully registered in a registry stays in it: no
\* registration, definition (successful or failing), lookup, listing or pass
\* step takes a name out of any of the three registries.
C16_NeverShrinks ==
    /\ [](\A tier \in Tiers : DOMAIN history[tier] \subseteq DOMAIN Registry(tier))
    /\ [][/\ DOMAIN PEBBLE_REGISTRY \subseteq DOMAIN PEBBLE_REGISTRY'
          /\ DOMAIN CEMENT_REGISTRY \subseteq DOMAIN CEMENT_REGISTRY'
          /\ DOMAIN CONSTRUCT_REGISTRY \subseteq DOMAIN CONSTRUCT_REGISTRY']_vars

\* a definition of a cement failed while every registry holds names,
\* among them the cement's own from an earlier definition
C16_Witness ==
    /\ pc = "done"
    /\ outcome.op = "cement"
    /\ outcome.status = "raised"
    /\ outcome.name \in DOMAIN CEMENT_REGISTRY
    /\ CONSTRUCT_REGISTRY # EmptyMap
    /\ history.replaced # {}

\* C18: a lookup raises the not-found error exactly when no registration
\* under the name has succeeded, and else returns the definition of the
\* latest successful one; a listing gives exactly the names registered so
\* far; neither changes a registry.
C18_Inv ==
    /\ (pc = "done" /\ outcome.op = "get") =>
          /\ outcome.status = "raised" <=> outcome.name \notin DOMAIN history[outcome.arg]
          /\ outcome.status = "raised" =>
                outcome.error = Err("NotFound", outcome.arg, outcome.name,
                                    NoName, NoName, NoName)
          /\ outcome.status = "returned" =>
                Definition(outcome.arg, outcome.result)
                    = history[outcome.arg][outcome.name]
    /\ (pc = "done" /\ outcome.op = "list") =>
          /\ outcome.status = "returned"
          /\ outcome.result = DOMAIN history[outcome.arg]

C18_Step ==
    (pc = "idle" /\ outcome'.op \in {"get", "list"}) =>
        UNCHANGED <<PEBBLE_REGISTRY, CEMENT_REGISTRY, CONSTRUCT_REGISTRY>>

C18_LookupAndList == []C18_Inv /\ [][C18_Step]_vars

\* a lookup returned the second function registered under a pebble's name
C18_Witness ==
    /\ pc = "done"
    /\ outcome.op = "get"
    /\ outcome.arg = "pebble"
    /\ outcome.status = "returned"
    /\ outcome.name \in history.replaced
    /\ outcome.result.function = history.pebble[outcome.name]

\* the description a function's own documentation gives: None without a
\* docstring or with an empty one
OwnDescription(func) ==
    IF Truthy(FuncDoc(func)) THEN StrV(CleanDoc(FuncDoc(func).s)) ELSE NoneV

\* C17 as claimed: decorating a function always succeeds and assigns the
\* entry of its name, leaving the others; when pebble() was called without
\* name, the entry is under the function's own identifier, also for the
\* second and later functions given to one decorator object; when it was
\* called without description, the description is the one the function's
\* own documentation gives.
C17_Claimed_Step ==
    (pc = "idle" /\ pc' = "done" /\ outcome'.op = "decorate") =>
        LET func == outcome'.arg
            name == IF decorator.asked.name.t = "none" THEN FuncName(func)
                    ELSE decorator.asked.name.s
        IN  /\ outcome'.status = "returned"
            /\ DOMAIN PEBBLE_REGISTRY' = DOMAIN PEBBLE_REGISTRY \cup {name}
            /\ PEBBLE_REGISTRY'[name].function = func
            /\ PEBBLE_REGISTRY'[name].metadata.name = StrV(name)
            /\ decorator.asked.description.t = "none" =>
                  PEBBLE_REGISTRY'[name].metadata.description = OwnDescription(func)
            /\ \A kept \in DOMAIN PEBBLE_REGISTRY \ {name} :
                  PEBBLE_REGISTRY'[kept] = PEBBLE_REGISTRY[kept]

C17_Claimed == [][C17_Claimed_Step]_vars

\* C19 as claimed: register_pass_in_db with a pass_type that is neither
\* first_pass nor scheduled_pass, or with scheduled_pass and no schedule,
\* raises a validation error and adds no row; and every row of the passes
\* table has a schedule exactly when its pass_type is scheduled_pass.
C19_Claimed_Step ==
    (pc = "idle" /\ outcome'.op = "register_pass_in_db"
        /\ (\/ outcome'.arg.pass_type \notin {"first_pass", "scheduled_pass"}
            \/ outcome'.arg.pass_type = "scheduled_pass"
                  /\ ~Truthy(outcome'.arg.schedule))) =>
        /\ outcome'.status = "raised"
        /\ outcome'.error.kind \in {"InvalidPassType", "ScheduleRequired"}
        /\ db' = db

C19_Claimed_Rows ==
    \A i \in DOMAIN db.passes :
        Truthy(db.passes[i].schedule) <=> db.passes[i].pass_type = "scheduled_pass"

C19_Claimed == []C19_Claimed_Rows /\ [][C19_Claimed_Step]_vars

\* the dict objects a thread's frames refer to
Objects(frames) ==
    {frames.pass.arg, frames.pass.context, frames.con.context, frames.cem.context}
        \ {None}

C20_Inv ==
    /\ Objects(Frames) \cap Objects(other) = {}
    /\ (pc = "done" /\ outcome.op = "pass") =>
          EndedAs(RunOnce(pass.construct_name, pass.initial))

C20_Step ==
    other' = other =>
        \A o \in Objects(other) : o \in DOMAIN heap' /\ heap'[o] = heap[o]

\* C20: of two passes whose steps interleave, each on a context object of
\* its own and with no registration meanwhile, each makes the invocations
\* and ends with the context or the error of the pass run alone on the
\* same initial context; a step of one leaves the other's context objects
\* as they are.
C20_Isolation == []C20_Inv /\ [][C20_Step]_vars

\* a pass that started second returned after two invocations while the
\* pass that started first, on a caller's dict, has made one invocation and
\* is still in its cement
C20_Witness ==
    /\ pc = "done"
    /\ outcome.status = "returned"
    /\ Len(calls) = 2
    /\ other.pc = "cement"
    /\ Len(other.calls) = 1
    /\ other.pass.arg = 1
    /\ heap[other.cem.context] # heap[outcome.result]

\* the instructions of the running cement that its loop has not reached, the
\* failed one among them
NotReached == {cem.sorted_instructions[i] : i \in DOMAIN cem.sorted_instructions}

C21_Inv ==
    /\ \A i, j \in DOMAIN calls :
          (calls[i].pos = calls[j].pos /\ calls[i].idx = calls[j].idx) => i = j
    /\ \A i \in DOMAIN calls : calls[i].result.kind = "raise" => i = Len(calls)
    /\ (pc = "done" /\ outcome.op = "pass" /\ outcome.status = "raised") =>
          /\ \A i \in DOMAIN calls :
                /\ calls[i].pos \notin {con.sorted_cements[k] :
                                           k \in 2..Len(con.sorted_cements)}
                /\ (calls[i].pos = cem.pos /\ calls[i].result.kind # "raise") =>
                      calls[i].idx \notin NotReached

C21_Step ==
    (pc = "done" /\ outcome.op = "pass" /\ outcome.status = "raised") =>
        (pc' = "idle" /\ calls' = <<>> /\ pass' = NoPass)

\* C21: a pass call does not retry: no instruction of a cement occurrence is
\* invoked twice, a function that raised is the last one invoked, and once a
\* step failed the pass invokes nothing more, neither the instructions of
\* the cement not yet reached nor those of the cements that follow.
C21_NoRetry == []C21_Inv /\ [][C21_Step]_vars

\* a pass failed in the first of two cements, at the second instruction,
\* after the first was invoked
C21_Witness ==
    /\ pc = "done"
    /\ outcome.status = "raised"
    /\ Len(con.sorted_cements) = 2
    /\ Len(cem.pebble_instructions) = 2
    /\ Len(cem.sorted_instructions) = 1
    /\ Len(calls) = 1

\* position p of the running construct's cement_order goes before position
\* q: smaller order, or equal order and listed earlier
Before(p, q) ==
    \/ con.cement_order[p][2] < con.cement_order[q][2]
    \/ con.cement_order[p][2] = con.cement_order[q][2] /\ p < q

\* the positions construct_func's loop has still to run, the running one
\* first
ToRun == {con.sorted_cements[i] : i \in DOMAIN con.sorted_cements}

C22_Inv ==
    /\ pc \in {"construct", "cement"} =>
          /\ ToRun \subseteq DOMAIN con.cement_order
          /\ \A i, j \in DOMAIN con.sorted_cements :
                i < j => Before(con.sorted_cements[i], con.sorted_cements[j])
          /\ \A p \in (DOMAIN con.cement_order) \ ToRun : \A q \in ToRun : Before(p, q)
          /\ \A i, j \in DOMAIN calls :
                i < j => (calls[i].pos = calls[j].pos \/ Before(calls[i].pos, calls[j].pos))
          /\ pc = "cement" => cem.pos = Head(con.sorted_cements)
    /\ (pc = "done" /\ outcome.op = "pass" /\ outcome.status = "returned"
            /\ con.cement_order = <<>>) =>
          (calls = <<>> /\ heap[outcome.result] = pass.initial)

C22_Step ==
    /\ (pc = "idle" /\ pc' = "construct") =>
          /\ ToRun' = DOMAIN con'.cement_order
          /\ heap'[con'.context] = pass'.initial
    /\ (pc = "construct" /\ pc' = "cement") =>
          /\ cem'.pos = Head(con.sorted_cements)
          /\ cem'.name = con.cement_order[cem'.pos][1]
          /\ cem'.pebble_instructions = CEMENT_REGISTRY[cem'.name].pebble_instructions
          /\ heap'[cem'.context] = heap[con.context]
          /\ heap[con.context] # EmptyMap => cem'.context = con.context
    /\ (pc = "cement" /\ pc' = "construct") =>
          /\ con'.context = cem.context
          /\ con'.sorted_cements = Tail(con.sorted_cements)
          /\ heap' = heap
    /\ (pc = "construct" /\ pc' = "done") =>
          /\ con.sorted_cements = <<>>
          /\ outcome'.status = "returned"
          /\ outcome'.result = con.context
          /\ heap' = heap

\* C22: construct_func runs the cements of its cement_order by ascending
\* order, equal orders as listed, whatever the listing; each cement is
\* called with the context the one before returned, and the construct
\* returns the context the last one returned, the entries of its input when
\* the cement_order is empty.
C22_ConstructOrder == []C22_Inv /\ [][C22_Step]_vars

\* a construct listing (p, 2) before (q, 1) returned after q's instruction
\* and then p's were invoked
C22_Witness ==
    /\ pc = "done"
    /\ outcome.status = "returned"
    /\ con.cement_order = <<<<P, 2>>, <<Q, 1>>>>
    /\ Len(calls) = 2
    /\ calls[1].pos = 2
    /\ calls[2].pos = 1

\* the list with every depends_on emptied
WithoutDependencies(pebble_instructions) ==
    [i \in DOMAIN pebble_instructions |->
        [pebble_instructions[i] EXCEPT !.depends_on = <<>>]]

\* the call of cement_func on a list and a context, as a whole
RunCement(pebble_instructions, context) ==
    cement_func(1, pebble_instructions, SortInstructions(pebble_instructions),
                context, <<>>)

\* the run of a list against the run of the list without its dependencies:
\* the same when no dependency check fails; a beginning of it, the context as
\* that beginning left it, when one does
SameButForChecks(pebble_instructions, context) ==
    LET with == RunCement(pebble_instructions, context)
        without == RunCement(WithoutDependencies(pebble_instructions), context)
    IN  IF with.error.kind # "UnsatisfiedDependency" THEN with = without
        ELSE /\ Len(with.calls) <= Len(without.calls)
             /\ with.calls = SubSeq(without.calls, 1, Len(with.calls))
             /\ \A k \in DOMAIN with.context :
                   k \in DOMAIN without.context \/ with.context[k] = context[k]

C23_Inv ==
    /\ pc = "idle" =>
          \A pebble_instructions \in DependencyLists, context \in ContextArgs :
             FirstUnknownPebble(pebble_instructions, 1) = 0 =>
                SameButForChecks(pebble_instructions, context)
    /\ (pc = "done" /\ outcome.op = "pass") =>
          EndedAs(RunOnce(pass.construct_name, pass.initial))
    /\ pc = "cement" =>
          \A i, j \in DOMAIN cem.sorted_instructions :
             i < j =>
                LET a == cem.sorted_instructions[i]
                    b == cem.sorted_instructions[j]
                IN  \/ cem.pebble_instructions[a].order < cem.pebble_instructions[b].order
                    \/ /\ cem.pebble_instructions[a].order = cem.pebble_instructions[b].order
                       /\ a < b

C23_Step ==
    (AtInstruction /\ MissingKeys = {} /\ MissingDependencies # {}) =>
        /\ FailsWith("UnsatisfiedDependency")
        /\ cem' = cem

\* C23: depends_on has no part in the order of execution: a cement and the
\* cement without its depends_on lists invoke the same functions in the same
\* sequence with the same parameters when every dependency check passes; an
\* instruction whose dependency is written only by an instruction of larger
\* order is reached first, not moved, and fails its check.
C23_DependsOnKeepsOrder == []C23_Inv /\ [][C23_Step]_vars

\* a cement listing U (order 2, writing the key U) before V (order 1,
\* depending on U) failed V's dependency check with nothing invoked
C23_Witness ==
    /\ pc = "done"
    /\ outcome.status = "raised"
    /\ outcome.error = Err("UnsatisfiedDependency", "cement", V, U, NoName, NoName)
    /\ calls = <<>>
    /\ cem.pebble_instructions = <<CementInstruction(U, <<>>, 2, <<>>),
                                   CementInstruction(V, <<>>, 1, <<U>>)>>
    /\ PEBBLE_REGISTRY[U].function = "f_scalar"

\* C24 as claimed: an invocation made by a cement's step is made through the
\* pebble's wrapper, so the step that invokes gives the logger what the
\* wrapper writes when the function is done: the record of the elapsed time
\* when it returned, the error record of that pebble when it raised. (The
\* line cement_func writes itself before the call, "Executing pebble ... in
\* cement ...", is no record of the wrapper and is not asked for here.)
C24_Claimed_Step ==
    Invoked =>
        LET c == NewCall
            records == wrapper(c.pebble_name, c.func, c.parameters).records
        IN  \E i \in (Len(log) + 1)..Len(log') : log'[i] = records[Len(records)]

C24_Claimed == [][C24_Claimed_Step]_vars

\* the registries hold, name by name, the definitions that succeeded last
RegisteredAsDefined ==
    /\ DOMAIN CEMENT_REGISTRY = DOMAIN history.cement
    /\ DOMAIN CONSTRUCT_REGISTRY = DOMAIN history.construct
    /\ \A name \in DOMAIN CEMENT_REGISTRY :
          CEMENT_REGISTRY[name].pebble_instructions = history.cement[name]
    /\ \A name \in DOMAIN CONSTRUCT_REGISTRY :
          CONSTRUCT_REGISTRY[name].cement_order = history.construct[name]

\* a call of cement() or construct() ends with the validation error
DefinitionFails ==
    /\ pc = "idle"
    /\ outcome'.op \in {"cement", "construct"}
    /\ outcome'.status = "raised"

C25_Inv ==
    /\ RegisteredAsDefined
    /\ pc \in {"construct", "cement"} =>
          con.cement_order = history.construct[pass.construct_name]
    /\ (pc = "cement" /\ cem.pos # 0) =>
          cem.pebble_instructions = history.cement[con.cement_order[cem.pos][1]]

C25_Step ==
    DefinitionFails =>
        /\ outcome'.error.kind = "Validation"
        /\ UNCHANGED <<PEBBLE_REGISTRY, CEMENT_REGISTRY, CONSTRUCT_REGISTRY>>

\* C25: a call of cement() or construct() that fails validation leaves the
\* three registries as they were, so no entry appears under a new name and a
\* name defined before keeps the definition that succeeded last; the passes
\* that run afterwards run that definition.
C25_FailedDefinitionFrame == []C25_Inv /\ [][C25_Step]_vars

\* cement() has just failed for a name that is registered with other
\* instructions and that the registered construct runs
C25_Witness ==
    /\ pc = "done"
    /\ outcome.op = "cement"
    /\ outcome.status = "raised"
    /\ outcome.name \in DOMAIN CEMENT_REGISTRY
    /\ CEMENT_REGISTRY[outcome.name].pebble_instructions # outcome.arg
    /\ C \in DOMAIN CONSTRUCT_REGISTRY
    /\ \E i \in DOMAIN CONSTRUCT_REGISTRY[C].cement_order :
          CONSTRUCT_REGISTRY[C].cement_order[i][1] = outcome.name

\* every target of a registered cement or construct is registered
TargetsRegistered ==
    /\ \A name \in DOMAIN CEMENT_REGISTRY :
          \A i \in DOMAIN CEMENT_REGISTRY[name].pebble_instructions :
             CEMENT_REGISTRY[name].pebble_instructions[i].pebble_name
                \in DOMAIN PEBBLE_REGISTRY
    /\ \A name \in DOMAIN CONSTRUCT_REGISTRY :
          \A i \in DOMAIN CONSTRUCT_REGISTRY[name].cement_order :
             CONSTRUCT_REGISTRY[name].cement_order[i][1] \in DOMAIN CEMENT_REGISTRY

\* C26: whatever is registered and registered again after a cement or a
\* construct was defined, the pebble of every instruction of a registered
\* cement and the cement of every entry of a registered construct stay
\* registered, the step that is running finds its target, and no pass ends
\* with the not-found error of a pebble or of a cement.
C26_TargetsResolve ==
    /\ TargetsRegistered
    /\ (pc = "cement" /\ cem.pos # 0) =>
          /\ get_cement(con.cement_order[cem.pos][1]).ok
          /\ \A i \in DOMAIN cem.pebble_instructions :
                get_pebble(cem.pebble_instructions[i].pebble_name).ok
    /\ (outcome.op = "pass" /\ outcome.status = "raised") =>
          ~(outcome.error.kind = "NotFound" /\ outcome.error.tier \in {"pebble", "cement"})

\* a pass has run the last instruction of a cement after the pebble of that
\* instruction, the cement and the construct were all registered again
C26_Witness ==
    /\ pc = "cement"
    /\ cem.pos # 0
    /\ calls # <<>>
    /\ Len(cem.pebble_instructions) > 1
    /\ cem.sorted_instructions = <<>>
    /\ Len(FrameCalls(cem.pos)) = Len(cem.pebble_instructions)
    /\ {calls[Len(calls)].pebble_name, con.cement_order[cem.pos][1],
        pass.construct_name} \subseteq history.replaced

\* the keys a result writes when it is merged for the pebble
KeysWritten(result, pebble_name) ==
    IF result.kind \in {"model", "dict"} THEN DOMAIN result.kv ELSE {pebble_name}

\* the instruction about to run asks for the key, by "$" or by depends_on
AsksFor(key) ==
    /\ pc = "cement"
    /\ cem.sorted_instructions # <<>>
    /\ LET instruction == cem.pebble_instructions[Head(cem.sorted_instructions)]
       IN  \/ \E i \in DOMAIN instruction.depends_on : instruction.depends_on[i] = key
           \/ \E i \in DOMAIN instruction.parameters :
                 instruction.parameters[i].value = Ref(key)

C27_Step ==
    /\ (Invoked /\ NewCall.result.kind # "raise") =>
          LET c == NewCall
              before == heap[cem.context]
              after == heap'[cem.context]
              written == KeysWritten(c.result, c.pebble_name)
          IN  /\ DOMAIN after = DOMAIN before \cup written
              /\ \A k \in DOMAIN before \ written : after[k] = before[k]
              /\ \A id \in DOMAIN heap : id # cem.context => heap'[id] = heap[id]
              /\ c.result.kind \in {"model", "dict"} =>
                    /\ \A k \in written : after[k] = c.result.kv[k]
                    /\ c.pebble_name \in DOMAIN after =>
                          c.pebble_name \in DOMAIN before \cup DOMAIN c.result.kv
              /\ c.result.kind \notin {"model", "dict"} =>
                    after[c.pebble_name] = c.result.val
    /\ \A name \in PebbleNames :
          (/\ AsksFor(name)
           /\ name \notin DOMAIN pass.initial
           /\ \A i \in DOMAIN calls :
                 calls[i].pebble_name = name => calls[i].result.kind \in {"model", "dict"})
          => (pc' = "done" /\ outcome'.status = "raised" /\ calls' = calls
              /\ outcome'.error.kind \in {"MissingContextKey", "UnsatisfiedDependency"})

\* C27: merging a result changes the keys it writes and nothing else: a dict
\* or a model sets its own keys, the other keys keep their values and the
\* pebble's name does not become a key, so an instruction that asks for that
\* name afterwards fails; any other result, None too, is set under the
\* pebble's name and the other keys keep their values.
C27_MergeFrame == [][C27_Step]_vars

\* None was filed under the name of the pebble that returned it, and the
\* dict of the next pebble, called with that None, set its key only
C27_Witness ==
    /\ pc = "cement"
    /\ Len(calls) = 2
    /\ calls[1].func = "f_none"
    /\ calls[2].func = "f_kv"
    /\ calls[2].parameters = [k \in {PX} |-> NoneV]
    /\ heap[cem.context] = [k \in {KA, U} |-> NoneV]
    /\ pass.initial = [k \in {KA} |-> IntV(7)]

\* C28: when a pass called with a context that has entries returns, the
\* context it returns holds, under every key, what the last invocation that
\* wrote the key wrote, counting the invocations of all the cements in the
\* order they were made, and the caller's value under a key none wrote; its
\* keys are the caller's and the written ones.
C28_LastWriterWins ==
    (/\ pc = "done"
     /\ outcome.op = "pass"
     /\ outcome.status = "returned"
     /\ pass.initial # EmptyMap) =>
        LET final == heap[outcome.result]
        IN  /\ DOMAIN final =
                  DOMAIN pass.initial \cup UNION {DOMAIN Writes(calls[i]) : i \in DOMAIN calls}
            /\ \A key \in DOMAIN final :
                  final[key] = IF Writers(key) = {} THEN pass.initial[key]
                               ELSE LastWritten(key)

\* the caller's "a" was overwritten by a dict and "u" was written by both
\* cements of the construct
C28_Witness ==
    /\ pc = "done"
    /\ outcome.op = "pass"
    /\ outcome.status = "returned"
    /\ pass.initial = [k \in {KA} |-> IntV(7)]
    /\ Cardinality(Writers(U)) = 2
    /\ Writers(KA) # {}
    /\ heap[outcome.result][KA] # IntV(7)
    /\ \E i \in Writers(U), j \in Writers(U) : calls[i].pos # calls[j].pos

\* a call of update_execution_log finds its row
Updates(log_id) ==
    /\ pc = "idle"
    /\ outcome'.op = "update_execution_log"
    /\ outcome'.status = "returned"
    /\ outcome'.result = log_id

C29_Claimed_Inv ==
    \A i \in DOMAIN db.logs : db.logs[i].ended <=> Closing(db.logs[i].status)

C29_Claimed_Step ==
    \A log_id \in DOMAIN db.logs :
       (Updates(log_id) /\ ~Truthy(outcome'.arg.status)) =>
           db'.logs[log_id].status = db.logs[log_id].status

\* C29 as claimed: whatever log_execution and update_execution_log calls were
\* made, a row of execution_logs has an end_time exactly when its status is
\* "completed" or "failed", and an update given no status keeps the status of
\* its row.
C29_Claimed == []C29_Claimed_Inv /\ [][C29_Claimed_Step]_vars

\* the pass that was called has not ended
PassRuns == pc \in {"construct", "cement"}

\* the pass that was called has returned a context or raised
PassEnded == pc = "done" /\ outcome.op = "pass" /\ outcome.status \in {"returned", "raised"}

\* the instructions of the cement at place pos of the running construct
Occurrence(pos) == CEMENT_REGISTRY[con.cement_order[pos][1]].pebble_instructions

C30_Inv ==
    (PassRuns \/ PassEnded) =>
        /\ \A i \in DOMAIN calls : calls[i].pos \in DOMAIN con.cement_order
        /\ \A pos \in DOMAIN con.cement_order :
              LET made == FrameCalls(pos)
              IN  /\ Len(made) <= Len(Occurrence(pos))
                  /\ \A i \in DOMAIN made :
                        /\ made[i].idx \in DOMAIN Occurrence(pos)
                        /\ \A j \in DOMAIN made : made[i].idx = made[j].idx => i = j

\* C30: the pebble functions returning or raising, and nothing being
\* registered while a pass runs, every call of first_pass or scheduled_pass
\* ends, with a context or with an error, and by then every instruction of
\* every occurrence of a cement in cement_order has been invoked at most once.
C30_Terminates == []C30_Inv /\ (PassRuns ~> PassEnded)

\* a pass through two occurrences of a cement has ended after it invoked
\* every instruction of both
C30_Witness ==
    /\ PassEnded
    /\ outcome.status = "returned"
    /\ Len(con.cement_order) = 2
    /\ con.cement_order[1][1] = con.cement_order[2][1]
    /\ Len(Occurrence(1)) = 2
    /\ Len(FrameCalls(1)) = 2
    /\ Len(FrameCalls(2)) = 2

====
